---- MODULE Spec2Model ----
(***************************************************************************)
(* Document lifecycle of the dataroom RAG store: DocumentManager,          *)
(* VectorDatabaseManager, DocumentChunker and the parsers, over the two    *)
(* Chroma collections (pdf_documents, csv_documents).                      *)
(*                                                                         *)
(* Text is modelled as a sequence of tokens (a token stands for one        *)
(* character or for an atomic run of characters such as a cell value);     *)
(* "\n" and " " are tokens of their own, so splitting into lines and       *)
(* stripping are computed, not assumed.  A Python dict is a record; a      *)
(* missing key is a missing field.  A raised exception is a record with    *)
(* the field exc holding str(e).  Messages built with f-strings are        *)
(* sequences of their pieces.                                              *)
(***************************************************************************)
EXTENDS Integers, Sequences, FiniteSets, TLC

\* ------------------------------------------------------------------ bounds
MaxRows == 2
MaxTime == 1
MaxChunks == 5
MaxPages == 1

\* ------------------------------------------------------------------ inputs
\* Paths handed to the operations; Path(p).name is the path itself here.
CsvPaths == {"a.csv", "unknown.csv"}
PdfPaths == {"r.pdf"}
OtherPaths == {"n.txt"}
Paths == CsvPaths \cup PdfPaths \cup OtherPaths

Suffix(p) == IF p \in CsvPaths THEN ".csv" ELSE IF p \in PdfPaths THEN ".pdf" ELSE ".txt"

\* The data rows of a CSV file (the cells of the columns name, age): the
\* k-th row of every file is DataRow(k), so a file is known by its length.
Names == <<"Alice", "Bob", "Carol", "Dave">>
DataRow(k) == <<Names[((k - 1) % Len(Names)) + 1], ToString(20 + 10 * k)>>

\* What the file at a path holds when an operation reads it: its data rows
\* (a header line is always present), or it is absent.  A file that pandas
\* cannot read is the fault "parse".
CsvContents == {[state |-> "ok", rows |-> [k \in 1..n |-> DataRow(k)]] : n \in 1..MaxRows}
PdfContents == {[state |-> "ok", pages |-> n] : n \in 1..MaxPages}
Missing == [state |-> "missing"]
Contents(p) ==
    (IF p \in CsvPaths THEN CsvContents
     ELSE IF p \in PdfPaths THEN PdfContents
     ELSE {[state |-> "ok"]})
        \cup {Missing}

\* The optional metadata argument.  Every caller in the repository leaves
\* it out; the stored filename then equals the path only for a file that
\* is itself named unknown.csv.
NoMeta == <<>>
Metas(p) == {NoMeta}

\* Where, if anywhere, the outside world fails during one operation, and
\* with which text: the parser, the embedder, Collection.add, and the
\* Collection.get and Collection.delete calls of the DocumentManager.
NoFault == [at |-> "none", text |-> "-"]
ParseFault == [at |-> "parse", text |-> "tokenizing data"]
EmbedFault == [at |-> "embed", text |-> "out of memory"]
AddFault == [at |-> "add", text |-> "disk I/O error"]
CheckFault == [at |-> "check_get", text |-> "disk I/O error"]
LookupSites == {"bypath_get_pdf", "bypath_get_csv"}
LookupFaults ==
    {[at |-> "bypath_get_pdf", text |-> "disk I/O error"],
     [at |-> "bypath_get_csv", text |-> "Collection not found"]}
DeleteFaults ==
    {NoFault} \cup [at : {"del_get_pdf", "del_delete_pdf", "del_get_csv", "del_delete_csv"},
                    text : {"Collection not found"}]

\* ------------------------------------------------------------------ python
Get(d, k, default) == IF k \in DOMAIN d THEN d[k] ELSE default

Raise(e) == [exc |-> e]
Raised(x) == "exc" \in DOMAIN x

IsError(result) == "error" \in DOMAIN result
IsSuccess(result) == "status" \in DOMAIN result /\ result.status = "success"

\* Pieces of text that contain "not found" once lower-cased.
NotFoundPieces == {"Document not found: ", "File not found: ", "Collection not found"}
MentionsNotFound(msg) == \E i \in 1..Len(msg) : msg[i] \in NotFoundPieces

RECURSIVE Strip(_)
Strip(line) ==
    IF line = <<>> THEN <<>>
    ELSE IF Head(line) \in {" ", "\n"} THEN Strip(Tail(line))
    ELSE IF line[Len(line)] \in {" ", "\n"} THEN Strip(SubSeq(line, 1, Len(line) - 1))
    ELSE line

RECURSIVE SplitLines(_)
SplitLines(text) ==
    LET breaks == {i \in 1..Len(text) : text[i] = "\n"}
    IN IF breaks = {} THEN <<text>>
       ELSE LET b == CHOOSE i \in breaks : \A j \in breaks : i <= j
            IN <<SubSeq(text, 1, b - 1)>> \o SplitLines(SubSeq(text, b + 1, Len(text)))

RECURSIVE JoinLines(_)
JoinLines(lines) ==
    IF lines = <<>> THEN <<>>
    ELSE IF Len(lines) = 1 THEN lines[1]
    ELSE lines[1] \o <<"\n">> \o JoinLines(Tail(lines))

\* ------------------------------------------------------------------ parser
\* DataFrame.to_markdown(index=False): the pipe table format, a header line,
\* an alignment line, then one line per data row.
TableLine(cells) == <<"|", " ", cells[1], " ", "|", " ", cells[2], " ", "|">>
AlignLine == <<"|", ":", "-", "|", "-", ":", "|">>
to_markdown(rows) ==
    JoinLines(<<TableLine(<<"name", "age">>), AlignLine>> \o [k \in 1..Len(rows) |-> TableLine(rows[k])])

parse_csv(file_path, content, flt) ==
    IF content.state = "missing" THEN [error |-> <<"File not found: ", file_path>>]
    ELSE IF flt.at = "parse" THEN [error |-> <<"Error parsing CSV: ", flt.text>>]
    ELSE [file_name |-> file_path,
          file_type |-> "csv",
          status |-> "success",
          rows |-> Len(content.rows),
          columns |-> 2,
          column_names |-> <<"name", "age">>,
          markdown_content |->
              <<"#", " ", file_path, "\n", "\n",
                "**rows**: ", ToString(Len(content.rows)), "\n",
                "**columns**: ", "2", "\n", "\n",
                "## data", "\n", "\n">> \o to_markdown(content.rows),
          output_format |-> "Markdown"]

\* parse_pdf: create_parse_task, get_parse_result, download_and_extract_content.
\* Any of the three can answer with an error (the service cannot read a
\* document that is not there); otherwise the result is the poll result
\* updated with the extracted content.
parse_pdf(document_url, content, flt) ==
    IF flt.at = "parse" THEN [error |-> <<"Error parsing PDF: ", flt.text>>]
    ELSE IF content.state = "missing" THEN [error |-> <<"Parsing failed: ", "document not readable">>]
    ELSE [status |-> "success",
          task_id |-> "task",
          data_id |-> document_url,
          download_url |-> "zip",
          markdown_content |-> JoinLines([k \in 1..content.pages |-> <<"page ", ToString(k)>>]),
          json_content |-> "layout",
          extracted_files |-> <<"full.md", "layout.json">>,
          output_format |-> "Markdown"]

\* ------------------------------------------------------------------ chunker
chunk_size == 1000
chunk_overlap == 200

Max2(a, b) == IF a >= b THEN a ELSE b

\* The sentence boundary search of _split_by_size: the first i, going down
\* from end to just above the lower limit, whose character ends a sentence.
BreakAt(content, start, end, size) ==
    LET lo == Max2(start + (size \div 2), end - 100)
        hits == {i \in (lo + 1)..end : content[i + 1] \in {".", "\n", "!", "?"}}
    IN IF hits = {} THEN end
       ELSE (CHOOSE i \in hits : \A j \in hits : j <= i) + 1

\* One pass of the while loop of _split_by_size, from the value of start it
\* begins with: the end of the window and the next value of start.
SplitWindow(content, size, overlap, start) ==
    LET end0 == start + size
        end == IF end0 < Len(content) THEN BreakAt(content, start, end0, size) ELSE end0
        next0 == end - overlap
    IN [end |-> end,
        chunk_content |-> Strip(SubSeq(content, start + 1,
                                       IF end <= Len(content) THEN end ELSE Len(content))),
        start |-> IF next0 < 0 THEN end ELSE next0]

RECURSIVE SplitBySizeFrom(_, _, _, _, _, _, _, _)
SplitBySizeFrom(content, document_metadata, file_type, size, overlap, start, chunk_num, chunks) ==
    IF ~(start < Len(content)) THEN chunks
    ELSE LET end0 == start + size
             end == IF end0 < Len(content) THEN BreakAt(content, start, end0, size) ELSE end0
             last_tok == IF end <= Len(content) THEN end ELSE Len(content)
             chunk_content == Strip(SubSeq(content, start + 1, last_tok))
             chunk == [chunk_id |-> document_metadata.document_id \o "_chunk_" \o ToString(chunk_num),
                       document_id |-> document_metadata.document_id,
                       content |-> chunk_content,
                       metadata |-> [file_type |-> file_type,
                                     filename |-> Get(document_metadata, "filename", "unknown." \o file_type),
                                     chunk_num |-> chunk_num,
                                     chunk_type |-> "size_based",
                                     chunk_size |-> Len(chunk_content),
                                     start_pos |-> start,
                                     end_pos |-> end]]
             next0 == end - overlap
             next == IF next0 < 0 THEN end ELSE next0
         IN IF chunk_content # <<>>
            THEN SplitBySizeFrom(content, document_metadata, file_type, size, overlap,
                                 next, chunk_num + 1, Append(chunks, chunk))
            ELSE SplitBySizeFrom(content, document_metadata, file_type, size, overlap,
                                 next, chunk_num, chunks)

_split_by_size(content, document_metadata, file_type) ==
    SplitBySizeFrom(content, document_metadata, file_type, chunk_size, chunk_overlap, 0, 0, <<>>)

\* line.strip().startswith('|') and '|' in line[1:]
IsTableLine(line) ==
    /\ Strip(line) # <<>>
    /\ Head(Strip(line)) = "|"
    /\ \E i \in 2..Len(line) : line[i] = "|"

\* RowChunk, had the chunker copied document_id into the metadata it stores.
RowChunk_with_document_id(document_metadata, table_lines, i) ==
    [chunk_id |-> document_metadata.document_id \o "_row_" \o ToString(i),
     document_id |-> document_metadata.document_id,
     content |-> Strip(table_lines[i + 1]),
     metadata |-> [document_id |-> document_metadata.document_id,
                   file_type |-> "csv",
                   filename |-> Get(document_metadata, "filename", "unknown.csv"),
                   row |-> i,
                   chunk_type |-> "row",
                   total_rows |-> Len(table_lines) - 1,
                   chunk_size |-> Len(table_lines[i + 1])]]

RowChunk(document_metadata, table_lines, i) ==
    [chunk_id |-> document_metadata.document_id \o "_row_" \o ToString(i),
     document_id |-> document_metadata.document_id,
     content |-> Strip(table_lines[i + 1]),
     metadata |-> [file_type |-> "csv",
                   filename |-> Get(document_metadata, "filename", "unknown.csv"),
                   row |-> i,
                   chunk_type |-> "row",
                   total_rows |-> Len(table_lines) - 1,
                   chunk_size |-> Len(table_lines[i + 1])]]

\* table_lines[0] is taken for the header and skipped; every further table
\* line becomes a chunk whose row is its index among the table lines.
_split_csv_by_rows(markdown_content, document_metadata) ==
    LET lines == SplitLines(markdown_content)
        table_lines == SelectSeq(lines, IsTableLine)
    IN IF table_lines = <<>>
       THEN _split_by_size(markdown_content, document_metadata, "csv")
       ELSE [i \in 1..(Len(table_lines) - 1) |-> RowChunk(document_metadata, table_lines, i)]

chunk_csv_markdown(markdown_content, document_metadata) ==
    _split_csv_by_rows(markdown_content, document_metadata)

\* ------------------------------------------------------------------ index store
\* A collection is the sequence of its items in insertion order.  An item is
\* [id, document, metadata] as handed to Collection.add; origin is a history
\* field (the path and document the item was derived from) that no operation
\* reads.
\* Collection.get(where=...), had an item without the key passed the filter.
get_where_lenient(collection, key, value) ==
    SelectSeq(collection, LAMBDA c : key \in DOMAIN c.metadata => c.metadata[key] = value)

get_where(collection, key, value) ==
    SelectSeq(collection, LAMBDA c : key \in DOMAIN c.metadata /\ c.metadata[key] = value)

Ids(items) == {items[i].id : i \in 1..Len(items)}

\* Collection.add: an id the collection already holds is skipped.
add(collection, items) ==
    collection \o SelectSeq(items, LAMBDA c : c.id \notin Ids(collection))

\* Collection.delete(ids=...)
delete_ids(collection, ids) ==
    SelectSeq(collection, LAMBDA c : c.id \notin ids)

\* ------------------------------------------------------------------ VectorDatabaseManager
Timestamp(t) == ToString(t)

Out(res, pdf, csv, parsed) == [res |-> res, pdf |-> pdf, csv |-> csv, parsed |-> parsed]

PageItem(document_id, doc_metadata, page_chunk, file_path, t) ==
    [id |-> document_id \o "_page_" \o ToString(page_chunk.metadata.page),
     document |-> page_chunk.text,
     metadata |-> [document_id |-> document_id,
                   filename |-> doc_metadata.filename,
                   page_number |-> page_chunk.metadata.page,
                   file_type |-> "pdf",
                   chunk_type |-> "page",
                   upload_time |-> doc_metadata.upload_time],
     origin |-> [path |-> file_path, document_id |-> document_id]]

add_pdf_document(file_path, metadata, content, flt, t, pdf, csv) ==
    LET parse_result == parse_pdf(file_path, content, flt)
        page_chunks == Get(parse_result, "page_chunks", <<>>)
        document_id == "pdf_" \o Timestamp(t)
        doc_metadata == metadata @@ [document_id |-> document_id,
                                     filename |-> Get(parse_result, "filename", "unknown.pdf"),
                                     file_type |-> "pdf",
                                     file_path |-> file_path,
                                     upload_time |-> Timestamp(t),
                                     total_pages |-> Len(page_chunks)]
        items == [k \in 1..Len(page_chunks) |->
                     PageItem(document_id, doc_metadata, page_chunks[k], file_path, t)]
    IN IF IsError(parse_result)
       THEN Out([error |-> <<"Failed to parse PDF: ">> \o parse_result.error], pdf, csv, "error")
       ELSE IF page_chunks = <<>>
       THEN Out([error |-> <<"No page chunks found in parse result">>], pdf, csv, "ok")
       ELSE IF flt.at \in {"embed", "add"}
       THEN Out([error |-> <<"Error adding PDF document: ", flt.text>>], pdf, csv, "ok")
       ELSE Out([status |-> "success",
                 document_id |-> document_id,
                 database |-> "pdf_db",
                 collection |-> "pdf_documents",
                 pages_added |-> Len(page_chunks),
                 metadata |-> doc_metadata],
                add(pdf, items), csv, "ok")

CsvItem(chunk, file_path) ==
    [id |-> chunk.chunk_id,
     document |-> chunk.content,
     metadata |-> chunk.metadata,
     origin |-> [path |-> file_path, document_id |-> chunk.document_id]]

\* add_csv_document, had it embedded and stored the rows one at a time: the
\* rows before the one whose embedding fails are already in the collection.
add_csv_document_rowwise(file_path, metadata, content, flt, t, pdf, csv) ==
    LET parse_result == parse_csv(file_path, content, flt)
        document_id == "csv_" \o Timestamp(t)
        doc_metadata == metadata @@ [document_id |-> document_id,
                                     filename |-> Get(parse_result, "filename", "unknown.csv"),
                                     file_type |-> "csv",
                                     file_path |-> file_path,
                                     upload_time |-> Timestamp(t),
                                     rows |-> Get(parse_result, "rows", 0),
                                     columns |-> Get(parse_result, "columns", 0)]
        markdown_content == Get(parse_result, "markdown_content", <<>>)
        chunks == chunk_csv_markdown(markdown_content, doc_metadata)
        items == [k \in 1..Len(chunks) |-> CsvItem(chunks[k], file_path)]
    IN IF IsError(parse_result)
       THEN Out([error |-> <<"Failed to parse CSV: ">> \o parse_result.error], pdf, csv, "error")
       ELSE IF markdown_content = <<>>
       THEN Out([error |-> <<"No markdown content found in parse result">>], pdf, csv, "ok")
       ELSE IF chunks = <<>>
       THEN Out([error |-> <<"No chunks generated from CSV">>], pdf, csv, "ok")
       ELSE IF flt.at = "embed"
       THEN Out([error |-> <<"Error adding CSV document: ", flt.text>>],
                pdf, add(csv, <<items[1]>>), "ok")
       ELSE IF flt.at = "add"
       THEN Out([error |-> <<"Error adding CSV document: ", flt.text>>], pdf, csv, "ok")
       ELSE Out([status |-> "success",
                 document_id |-> document_id,
                 database |-> "csv_db",
                 collection |-> "csv_documents",
                 chunks_added |-> Len(chunks),
                 metadata |-> doc_metadata],
                pdf, add(csv, items), "ok")

add_csv_document(file_path, metadata, content, flt, t, pdf, csv) ==
    LET parse_result == parse_csv(file_path, content, flt)
        document_id == "csv_" \o Timestamp(t)
        doc_metadata == metadata @@ [document_id |-> document_id,
                                     filename |-> Get(parse_result, "filename", "unknown.csv"),
                                     file_type |-> "csv",
                                     file_path |-> file_path,
                                     upload_time |-> Timestamp(t),
                                     rows |-> Get(parse_result, "rows", 0),
                                     columns |-> Get(parse_result, "columns", 0)]
        markdown_content == Get(parse_result, "markdown_content", <<>>)
        chunks == chunk_csv_markdown(markdown_content, doc_metadata)
        items == [k \in 1..Len(chunks) |-> CsvItem(chunks[k], file_path)]
    IN IF IsError(parse_result)
       THEN Out([error |-> <<"Failed to parse CSV: ">> \o parse_result.error], pdf, csv, "error")
       ELSE IF markdown_content = <<>>
       THEN Out([error |-> <<"No markdown content found in parse result">>], pdf, csv, "ok")
       ELSE IF chunks = <<>>
       THEN Out([error |-> <<"No chunks generated from CSV">>], pdf, csv, "ok")
       ELSE IF flt.at \in {"embed", "add"}
       THEN Out([error |-> <<"Error adding CSV document: ", flt.text>>], pdf, csv, "ok")
       ELSE Out([status |-> "success",
                 document_id |-> document_id,
                 database |-> "csv_db",
                 collection |-> "csv_documents",
                 chunks_added |-> Len(chunks),
                 metadata |-> doc_metadata],
                pdf, add(csv, items), "ok")

\* ------------------------------------------------------------------ DocumentManager
_check_document_exists(file_path, file_type, flt, pdf, csv) ==
    LET collection == IF file_type = "pdf" THEN pdf ELSE csv
        existing_docs == get_where(collection, "filename", file_path)
    IN IF flt.at = "check_get" THEN Raise(flt.text)
       ELSE IF existing_docs # <<>>
       THEN IF "document_id" \in DOMAIN existing_docs[1].metadata
            THEN [exists |-> TRUE, document_id |-> existing_docs[1].metadata.document_id]
            ELSE Raise("'document_id'")
       ELSE [exists |-> FALSE]

upload_pdf(file_path, metadata, content, flt, t, pdf, csv) ==
    LET existing_result == _check_document_exists(file_path, "pdf", flt, pdf, csv)
    IN IF Raised(existing_result)
       THEN Out([error |-> <<"Error uploading PDF: ", existing_result.exc>>], pdf, csv, "-")
       ELSE IF existing_result.exists
       THEN Out([error |-> <<"Document already exists: ", existing_result.document_id>>], pdf, csv, "-")
       ELSE add_pdf_document(file_path, metadata, content, flt, t, pdf, csv)

upload_csv(file_path, metadata, content, flt, t, pdf, csv) ==
    LET existing_result == _check_document_exists(file_path, "csv", flt, pdf, csv)
    IN IF Raised(existing_result)
       THEN Out([error |-> <<"Error uploading CSV: ", existing_result.exc>>], pdf, csv, "-")
       ELSE IF existing_result.exists
       THEN Out([error |-> <<"Document already exists: ", existing_result.document_id>>], pdf, csv, "-")
       ELSE add_csv_document(file_path, metadata, content, flt, t, pdf, csv)

upload_document(file_path, metadata, content, flt, t, pdf, csv) ==
    IF content.state = "missing"
    THEN Out([error |-> <<"File not found: ", file_path>>], pdf, csv, "-")
    ELSE IF Suffix(file_path) = ".pdf" THEN upload_pdf(file_path, metadata, content, flt, t, pdf, csv)
    ELSE IF Suffix(file_path) = ".csv" THEN upload_csv(file_path, metadata, content, flt, t, pdf, csv)
    ELSE Out([error |-> <<"Unsupported file type: ", Suffix(file_path)>>], pdf, csv, "-")

\* _delete_from_collection, had its except clause answered as if the
\* matching items were gone.
_delete_from_collection_optimistic(collection, document_id, flt, get_site, delete_site) ==
    LET docs == get_where(collection, "document_id", document_id)
    IN IF flt.at = get_site
       THEN [res |-> [deleted |-> TRUE, count |-> 0], coll |-> collection]
       ELSE IF docs # <<>>
       THEN IF flt.at = delete_site
            THEN [res |-> [deleted |-> TRUE, count |-> 0], coll |-> collection]
            ELSE [res |-> [deleted |-> TRUE, count |-> Len(docs)],
                  coll |-> delete_ids(collection, Ids(docs))]
       ELSE [res |-> [deleted |-> FALSE, count |-> 0], coll |-> collection]

\* _delete_from_collection catches every exception of its own get and delete
\* and answers with a dict that has no "deleted" key.
_delete_from_collection(collection, document_id, flt, get_site, delete_site) ==
    LET docs == get_where(collection, "document_id", document_id)
    IN IF flt.at = get_site
       THEN [res |-> [error |-> <<"Error deleting from collection: ", flt.text>>], coll |-> collection]
       ELSE IF docs # <<>>
       THEN IF flt.at = delete_site
            THEN [res |-> [error |-> <<"Error deleting from collection: ", flt.text>>],
                  coll |-> collection]
            ELSE [res |-> [deleted |-> TRUE, count |-> Len(docs)],
                  coll |-> delete_ids(collection, Ids(docs))]
       ELSE [res |-> [deleted |-> FALSE, count |-> 0], coll |-> collection]

\* delete_document, had it reported success whenever neither collection
\* raised.
delete_document_always_success(document_id, flt, pdf, csv) ==
    LET pdf_result == _delete_from_collection(pdf, document_id, flt, "del_get_pdf", "del_delete_pdf")
        csv_result == _delete_from_collection(csv, document_id, flt, "del_get_csv", "del_delete_csv")
    IN IF "deleted" \notin DOMAIN pdf_result.res \/ "deleted" \notin DOMAIN csv_result.res
       THEN Out([error |-> <<"Error deleting document: ", "'deleted'">>],
                pdf_result.coll, csv_result.coll, "-")
       ELSE Out([status |-> "success",
                 document_id |-> document_id,
                 deleted_from_pdf |-> pdf_result.res.deleted,
                 deleted_from_csv |-> csv_result.res.deleted],
                pdf_result.coll, csv_result.coll, "-")

\* Both collections are visited before either answer is looked at; reading
\* "deleted" from an error answer raises KeyError, which the method catches.
delete_document(document_id, flt, pdf, csv) ==
    LET pdf_result == _delete_from_collection(pdf, document_id, flt, "del_get_pdf", "del_delete_pdf")
        csv_result == _delete_from_collection(csv, document_id, flt, "del_get_csv", "del_delete_csv")
        key_error == Out([error |-> <<"Error deleting document: ", "'deleted'">>],
                         pdf_result.coll, csv_result.coll, "-")
    IN IF "deleted" \notin DOMAIN pdf_result.res THEN key_error
       ELSE IF pdf_result.res.deleted
       THEN IF "deleted" \notin DOMAIN csv_result.res THEN key_error
            ELSE Out([status |-> "success",
                      document_id |-> document_id,
                      deleted_from_pdf |-> pdf_result.res.deleted,
                      deleted_from_csv |-> csv_result.res.deleted],
                     pdf_result.coll, csv_result.coll, "-")
       ELSE IF "deleted" \notin DOMAIN csv_result.res THEN key_error
       ELSE IF csv_result.res.deleted
       THEN Out([status |-> "success",
                 document_id |-> document_id,
                 deleted_from_pdf |-> pdf_result.res.deleted,
                 deleted_from_csv |-> csv_result.res.deleted],
                pdf_result.coll, csv_result.coll, "-")
       ELSE Out([error |-> <<"Document not found: ", document_id>>],
                pdf_result.coll, csv_result.coll, "-")

\* delete_document_by_path, had it wrapped a failed lookup in an error dict
\* the way the other methods do.
delete_document_by_path_caught(file_path, flt, pdf, csv) ==
    LET pdf_docs == get_where(pdf, "filename", file_path)
        csv_docs == get_where(csv, "filename", file_path)
    IN IF flt.at \in {"bypath_get_pdf", "bypath_get_csv"}
       THEN Out([error |-> <<"Error deleting document: ", flt.text>>], pdf, csv, "-")
       ELSE IF pdf_docs # <<>>
       THEN IF "document_id" \in DOMAIN pdf_docs[1].metadata
            THEN delete_document(pdf_docs[1].metadata.document_id, flt, pdf, csv)
            ELSE Out(Raise("'document_id'"), pdf, csv, "-")
       ELSE IF csv_docs # <<>>
       THEN IF "document_id" \in DOMAIN csv_docs[1].metadata
            THEN delete_document(csv_docs[1].metadata.document_id, flt, pdf, csv)
            ELSE Out(Raise("'document_id'"), pdf, csv, "-")
       ELSE Out([error |-> <<"Document not found: ", file_path>>], pdf, csv, "-")

\* No try block here: an exception of the two lookups, or of reading
\* document_id from the first match, reaches the caller.
delete_document_by_path(file_path, flt, pdf, csv) ==
    LET pdf_docs == get_where(pdf, "filename", file_path)
        csv_docs == get_where(csv, "filename", file_path)
    IN IF flt.at \in {"bypath_get_pdf", "bypath_get_csv"} THEN Out(Raise(flt.text), pdf, csv, "-")
       ELSE IF pdf_docs # <<>>
       THEN IF "document_id" \in DOMAIN pdf_docs[1].metadata
            THEN delete_document(pdf_docs[1].metadata.document_id, flt, pdf, csv)
            ELSE Out(Raise("'document_id'"), pdf, csv, "-")
       ELSE IF csv_docs # <<>>
       THEN IF "document_id" \in DOMAIN csv_docs[1].metadata
            THEN delete_document(csv_docs[1].metadata.document_id, flt, pdf, csv)
            ELSE Out(Raise("'document_id'"), pdf, csv, "-")
       ELSE Out([error |-> <<"Document not found: ", file_path>>], pdf, csv, "-")

\* History: how the delete step of update_document really ended, judged by
\* the store and the fault and not by the text of the answer.  "absent": both
\* lookups ran and no item carries the filename.
DeleteOutcome(file_path, flt, pdf, csv) ==
    LET res == delete_document_by_path(file_path, flt, pdf, csv).res
    IN IF ~Raised(res) /\ IsSuccess(res) THEN "success"
       ELSE IF /\ flt.at \notin LookupSites
               /\ get_where(pdf, "filename", file_path) = <<>>
               /\ get_where(csv, "filename", file_path) = <<>>
       THEN "absent"
       ELSE "failed"

\* update_document, had it cleared the store with reset_databases before
\* the re-upload.
update_document_reset_first(file_path, metadata, content, flt, t, pdf, csv) ==
    LET delete_result == delete_document_by_path(file_path, flt, pdf, csv)
    IN IF Raised(delete_result.res)
       THEN Out([error |-> <<"Error updating document: ", delete_result.res.exc>>],
                delete_result.pdf, delete_result.csv, "-")
       ELSE IF IsError(delete_result.res) /\ ~MentionsNotFound(delete_result.res.error)
       THEN delete_result
       ELSE upload_document(file_path, metadata, content, flt, t, <<>>, <<>>)

update_document(file_path, metadata, content, flt, t, pdf, csv) ==
    LET delete_result == delete_document_by_path(file_path, flt, pdf, csv)
    IN IF Raised(delete_result.res)
       THEN Out([error |-> <<"Error updating document: ", delete_result.res.exc>>],
                delete_result.pdf, delete_result.csv, "-")
       ELSE IF IsError(delete_result.res) /\ ~MentionsNotFound(delete_result.res.error)
       THEN delete_result
       ELSE upload_document(file_path, metadata, content, flt, t, delete_result.pdf, delete_result.csv)

\* ------------------------------------------------------------------ RealEstateInterface
ui_upload_document(file_path, content, flt, t, pdf, csv) ==
    LET as_pdf == add_pdf_document(file_path, NoMeta, content, flt, t, pdf, csv)
        as_csv == add_csv_document(file_path, NoMeta, content, flt, t, pdf, csv)
    IN IF Suffix(file_path) = ".pdf"
       THEN IF IsError(as_pdf.res)
            THEN [as_pdf EXCEPT !.res = [message |-> <<"PDF failed: ">> \o as_pdf.res.error]]
            ELSE [as_pdf EXCEPT !.res = [message |-> <<"PDF added, pages: ",
                                                        ToString(Get(as_pdf.res, "pages_added", 0))>>]]
       ELSE IF Suffix(file_path) = ".csv"
       THEN IF IsError(as_csv.res)
            THEN [as_csv EXCEPT !.res = [message |-> <<"CSV failed: ">> \o as_csv.res.error]]
            ELSE [as_csv EXCEPT !.res = [message |-> <<"CSV added, chunks: ",
                                                        ToString(Get(as_csv.res, "chunks_added", 0))>>]]
       ELSE Out([message |-> <<"Unsupported file type: ", Suffix(file_path)>>], pdf, csv, "-")

\* ------------------------------------------------------------------ x_rag: data and collections
MaxCases == 2
MaxCaseChunks == 2

\* search_kwargs.k of the two levels (read from rag_config.yaml).
case_k == 2
chunk_k == 2

\* Python's None, and what `if x` / `not x` make of a text or an image.
None == "<None>"
Truthy(x) == x \notin {None, ""}

\* The dataset json: case_id -> case_data, in file order.  pieces is the
\* number of chunks the text splitter makes of the case's document.
CaseId(k) == "c" \o ToString(k)
Datasets ==
    UNION {[1..n -> [pieces : 1..MaxCaseChunks]] : n \in 0..MaxCases}

CaseDocument(case_id) == <<"Title: ", "title of " \o case_id>>

_load_case_level_data(data) ==
    [k \in 1..Len(data) |->
        [document |-> CaseDocument(CaseId(k)),
         metadata |-> [case_id |-> CaseId(k), title |-> "title of " \o CaseId(k), level |-> "case"]]]

RECURSIVE _load_chunk_level_data(_, _)
_load_chunk_level_data(data, k) ==
    IF k > Len(data) THEN <<>>
    ELSE [j \in 1..data[k].pieces |->
             [document |-> CaseDocument(CaseId(k)) \o <<" part ", ToString(j)>>,
              metadata |-> [case_id |-> CaseId(k), title |-> "title of " \o CaseId(k),
                            level |-> "chunk"]]]
         \o _load_chunk_level_data(data, k + 1)

\* build_database, had the chunk level kept the case_id in the item id only.
build_database_id_only(level, data) ==
    IF level = "case"
    THEN LET loaded == _load_case_level_data(data)
         IN [k \in 1..Len(loaded) |->
                [id |-> "case_" \o loaded[k].metadata.case_id,
                 document |-> loaded[k].document,
                 metadata |-> loaded[k].metadata]]
    ELSE LET loaded == _load_chunk_level_data(data, 1)
         IN [k \in 1..Len(loaded) |->
                [id |-> "chunk_" \o loaded[k].metadata.case_id \o "_" \o ToString(k - 1),
                 document |-> loaded[k].document,
                 metadata |-> [title |-> loaded[k].metadata.title, level |-> "chunk"]]]

\* build_database: the collection is deleted and created again, then filled
\* with one add; counter numbers the chunks over the whole dataset.
build_database(level, data) ==
    IF level = "case"
    THEN LET loaded == _load_case_level_data(data)
         IN [k \in 1..Len(loaded) |->
                [id |-> "case_" \o loaded[k].metadata.case_id,
                 document |-> loaded[k].document,
                 metadata |-> loaded[k].metadata]]
    ELSE LET loaded == _load_chunk_level_data(data, 1)
         IN [k \in 1..Len(loaded) |->
                [id |-> "chunk_" \o loaded[k].metadata.case_id \o "_" \o ToString(k - 1),
                 document |-> loaded[k].document,
                 metadata |-> loaded[k].metadata]]

\* The distances of one query, as the rank of every position of a
\* collection: a rotation of the positions, read forwards or backwards.
Rankings(n) ==
    {[i \in 1..n |-> ((i - 1 + r) % n) + 1] : r \in 0..(n - 1)}
        \cup {[i \in 1..n |-> n - ((i - 1 + r) % n)] : r \in 0..(n - 1)}

\* The chunk level is ranked in insertion order or against it.
ChunkRankings(n) == {[i \in 1..n |-> i], [i \in 1..n |-> n + 1 - i]}

RECURSIVE Ranked(_, _)
Ranked(idx, rank) ==
    IF idx = {} THEN <<>>
    ELSE LET m == CHOOSE i \in idx : \A j \in idx : rank[i] <= rank[j]
         IN <<m>> \o Ranked(idx \ {m}, rank)

\* Collection.query for one query embedding: the n_results nearest items
\* that pass the where filter, nearest first, as lists nested once.
query(collection, rank, n_results, where) ==
    LET idx == {i \in 1..Len(collection) :
                   where = None \/ Get(collection[i].metadata, "case_id", None) = where}
        order == Ranked(idx, rank)
        top == SubSeq(order, 1, IF Len(order) < n_results THEN Len(order) ELSE n_results)
    IN [documents |-> <<[j \in 1..Len(top) |-> collection[top[j]].document]>>,
        metadatas |-> <<[j \in 1..Len(top) |-> collection[top[j]].metadata]>>,
        distances |-> <<[j \in 1..Len(top) |-> rank[top[j]]]>>]

\* ------------------------------------------------------------------ x_rag: MultimodalRAGChain
\* What the intent model answers, as text; str.lower() of its tokens.
ClassifierOutputs ==
    {<<"image_only">>, <<"text_only">>, <<"mixed_query">>, <<"mixed">>,
     <<" ", "Image_Only", "\n">>, <<"TEXT_ONLY">>, <<"image_only", ".">>,
     <<"I", " ", "cannot", " ", "tell">>, <<>>}

LowerToken(tok) ==
    CASE tok = "Image_Only" -> "image_only"
      [] tok = "TEXT_ONLY" -> "text_only"
      [] tok = "I" -> "i"
      [] OTHER -> tok
Lower(text) == [i \in 1..Len(text) |-> LowerToken(text[i])]

\* Where one invoke is failed by a collaborator: the intent model, the
\* embedder, one of the two collection queries, the answer model.
ChainFaults == {"none", "intent", "embed", "case_query", "chunk_query", "llm"}

embed_function(text, image) ==
    IF ~Truthy(text) /\ ~Truthy(image)
    THEN Raise("At least one of text or image must be provided.")
    ELSE [text |-> IF Truthy(text) THEN text ELSE None,
          image |-> IF Truthy(image) THEN image ELSE None]

\* The vector embed_function returns for the inputs it accepted (e is what
\* embed_function above gives back).  A slice is the L2-normalised CLIP
\* feature vector of the input, of the width of the model's projection
\* (openai/clip-vit-base-patch32: 512), or zero_emb, of width dim, when the
\* input is absent; the two slices are always concatenated.  A normalised
\* vector is not all zero: it is modelled as a unit vector.
dim == 512
projection_dim == 512

\* zero_emb, had it been allocated without being filled (torch.empty leaves
\* whatever the memory holds).
zero_emb_unfilled == [i \in 1..dim |-> 1]

zero_emb == [i \in 1..dim |-> 0]

get_text_features == [i \in 1..projection_dim |-> IF i = 1 THEN 1 ELSE 0]

get_image_features == [i \in 1..projection_dim |-> IF i = 2 THEN 1 ELSE 0]

\* final_embedding, had it done what the docstring says: "If only text or
\* only image is provided, returns the corresponding embedding."
final_embedding_as_documented(e) ==
    IF e.text # None /\ e.image # None THEN get_text_features \o get_image_features
    ELSE IF e.text # None THEN get_text_features
    ELSE get_image_features

final_embedding(e) ==
    LET text_emb == IF e.text # None THEN get_text_features ELSE zero_emb
        image_emb == IF e.image # None THEN get_image_features ELSE zero_emb
    IN text_emb \o image_emb

\* embedding_function(texts=[text], images=[image]) as its callers see it:
\* the exception, or the returned list.
embedding_function(text, image) ==
    LET e == embed_function(text, image)
    IN IF Raised(e) THEN e ELSE [returned |-> final_embedding(e)]

\* DocumentEmbedder.embed(texts).  texts is None, a str or a list of str:
\* [kind, value], value the list (for a str, the one-element list it is
\* normalised to).  "not texts" is true of None and of the empty list only:
\* the empty string has become [""] by then.
StrArg(text) == [kind |-> "str", value |-> <<text>>]
ListArg(list) == [kind |-> "list", value |-> list]
NoneArg == [kind |-> "none", value |-> <<>>]

embed(texts, failed) ==
    LET return_single == texts.kind = "str"
        embeddings == [i \in 1..Len(texts.value) |-> get_text_features]
    IN IF texts.value = <<>> THEN [returned |-> <<>>]
       ELSE IF failed THEN Raise("CUDA out of memory")
       ELSE IF return_single THEN [returned |-> embeddings[1]]
       ELSE [returned |-> embeddings]

_case_level_retrieval(query_text, query_image, flt, rank, case_coll) ==
    LET query_embedding == embed_function(query_text, query_image)
    IN IF Raised(query_embedding) THEN query_embedding
       ELSE IF flt = "embed" THEN Raise("embedding failed")
       ELSE IF flt = "case_query" THEN Raise("query failed")
       ELSE query(case_coll, rank, case_k, None)

EmptyChunkResults == [documents |-> <<>>, metadatas |-> <<>>, distances |-> <<>>]

RECURSIVE Flatten(_)
Flatten(lists) == IF lists = <<>> THEN <<>> ELSE Head(lists) \o Flatten(Tail(lists))

\* _chunk_level_retrieval, had it narrowed to the last stage-1 result.
_chunk_level_retrieval_last_case(query_text, query_image, case_results, flt, rank, chunk_coll) ==
    IF case_results.metadatas[1] = <<>>
    THEN [res |-> EmptyChunkResults, filter |-> None]
    ELSE LET top_case_metadata == case_results.metadatas[1][Len(case_results.metadatas[1])]
             top_case_id == Get(top_case_metadata, "case_id", None)
             text == IF query_text = None THEN "image analysis" ELSE query_text
             query_embedding == embed_function(text, None)
             chunk_results == query(chunk_coll, rank, chunk_k, top_case_id)
         IN IF ~Truthy(top_case_id) THEN [res |-> EmptyChunkResults, filter |-> None]
            ELSE IF Raised(query_embedding) THEN [res |-> query_embedding, filter |-> None]
            ELSE IF flt = "chunk_query" THEN [res |-> Raise("query failed"), filter |-> top_case_id]
            ELSE [res |-> [documents |-> Flatten(chunk_results.documents),
                           metadatas |-> Flatten(chunk_results.metadatas),
                           distances |-> Flatten(chunk_results.distances)],
                  filter |-> top_case_id]

\* filter is the where clause handed to the chunk collection, None when the
\* collection is not queried.
_chunk_level_retrieval(query_text, query_image, case_results, flt, rank, chunk_coll) ==
    IF case_results.metadatas[1] = <<>>
    THEN [res |-> EmptyChunkResults, filter |-> None]
    ELSE LET top_case_metadata == case_results.metadatas[1][1]
             top_case_id == Get(top_case_metadata, "case_id", None)
             text == IF query_text = None THEN "image analysis" ELSE query_text
             query_embedding == embed_function(text, None)
             chunk_results == query(chunk_coll, rank, chunk_k, top_case_id)
         IN IF ~Truthy(top_case_id) THEN [res |-> EmptyChunkResults, filter |-> None]
            ELSE IF Raised(query_embedding) THEN [res |-> query_embedding, filter |-> None]
            ELSE IF flt = "chunk_query" THEN [res |-> Raise("query failed"), filter |-> top_case_id]
            ELSE [res |-> [documents |-> Flatten(chunk_results.documents),
                           metadatas |-> Flatten(chunk_results.metadatas),
                           distances |-> Flatten(chunk_results.distances)],
                  filter |-> top_case_id]

Separator == "\n\n---\n\n"

RECURSIVE JoinWith(_, _)
JoinWith(docs, sep) ==
    IF docs = <<>> THEN <<>>
    ELSE IF Len(docs) = 1 THEN docs[1]
    ELSE docs[1] \o <<sep>> \o JoinWith(Tail(docs), sep)

NoResults == [documents |-> <<<<>>>>, metadatas |-> <<<<>>>>, distances |-> <<<<>>>>]

Steps(res, intent, text, image, case_results, filter, chunk_results, context, generated) ==
    [res |-> res, intent |-> intent, text |-> text, image |-> image,
     case_results |-> case_results, filter |-> filter, chunk_results |-> chunk_results,
     context |-> context, generated |-> generated]

\* route, had an answer outside the vocabulary been taken for a text query.
route_unknown_as_text_only(answered, query_text, query_image) ==
    IF answered = <<"image_only">>
    THEN [intent |-> "image_only", query_text |-> None, query_image |-> query_image]
    ELSE IF answered = <<"mixed_query">>
    THEN [intent |-> "mixed_query", query_text |-> query_text, query_image |-> query_image]
    ELSE [intent |-> "text_only", query_text |-> query_text, query_image |-> None]

\* The if/elif chain of invoke on the stripped, lower-cased answer of the
\* intent model.
route(answered, query_text, query_image) ==
    IF answered = <<"image_only">>
    THEN [intent |-> "image_only", query_text |-> None, query_image |-> query_image]
    ELSE IF answered = <<"text_only">>
    THEN [intent |-> "text_only", query_text |-> query_text, query_image |-> None]
    ELSE IF answered = <<"mixed_query">>
    THEN [intent |-> "mixed_query", query_text |-> query_text, query_image |-> query_image]
    ELSE [intent |-> "mixed_query", query_text |-> query_text, query_image |-> query_image]

\* MultimodalRAGChain.invoke.  response is the text the intent model
\* answers with; res is the dict returned, or the exception that leaves
\* invoke; the other fields record the steps taken.
multimodal_invoke(inputs, response, flt, rank1, rank2, case_coll, chunk_coll) ==
    LET query_text0 == Get(inputs, "input", None)
        query_image0 == Get(inputs, "image", None)
        routed == route(Lower(Strip(response)), query_text0, query_image0)
        intent == routed.intent
        query_text == routed.query_text
        query_image == routed.query_image
        case_results == _case_level_retrieval(query_text, query_image, flt, rank1, case_coll)
        stage2 == _chunk_level_retrieval(query_text, query_image, case_results, flt, rank2, chunk_coll)
        context_docs == stage2.res.documents
        context == JoinWith(context_docs, Separator)
    IN IF ~Truthy(query_text0) /\ ~Truthy(query_image0)
       THEN Steps(Raise("Query must contain at least 'input' text or an 'image'."),
                  "-", query_text0, query_image0, NoResults, None, EmptyChunkResults, <<>>, FALSE)
       ELSE IF flt = "intent"
       THEN Steps(Raise("intent model failed"),
                  "-", query_text0, query_image0, NoResults, None, EmptyChunkResults, <<>>, FALSE)
       ELSE IF Raised(case_results)
       THEN Steps(case_results, intent, query_text, query_image, NoResults, None,
                  EmptyChunkResults, <<>>, FALSE)
       ELSE IF Raised(stage2.res)
       THEN Steps(stage2.res, intent, query_text, query_image, case_results, stage2.filter,
                  EmptyChunkResults, <<>>, FALSE)
       ELSE IF flt = "llm"
       THEN Steps(Raise("answer model failed"), intent, query_text, query_image, case_results,
                  stage2.filter, stage2.res, context, FALSE)
       ELSE Steps([context |-> context,
                   answer |-> "generated answer",
                   image_paths |-> <<>>,
                   case_results |-> case_results,
                   chunk_results |-> stage2.res],
                  intent, query_text, query_image, case_results, stage2.filter, stage2.res,
                  context, TRUE)

QueryInputs == [input : {None, "", "what is shown"}, image : {None, "xray"}]

\* A collaborator is failed for the plainest answer of the intent model only.
InvokeInputs ==
    {x \in QueryInputs \X ClassifierOutputs \X ChainFaults :
        x[3] = "none" \/ x[2] = <<"mixed_query">>}

NoInvoke ==
    [op |-> "none", inputs |-> [input |-> None, image |-> None], response |-> <<>>,
     fault |-> "none", steps |-> Steps([status |-> "started"], "-", None, None,
                                                        NoResults, None, EmptyChunkResults, <<>>, FALSE)]

\* ------------------------------------------------------------------ state
VARIABLES
    now,             \* the wall clock, in whole seconds (what strftime('%Y%m%d_%H%M%S') shows)
    pdf_collection,  \* VectorDatabaseManager.pdf_collection
    csv_collection,  \* VectorDatabaseManager.csv_collection
    last,            \* history: the last operation, its inputs, its result, the collections before it
    prev,            \* history: a summary of the operation before the last one
    case_collection,   \* MultimodalRAGChain.case_collection (built by x_rag build_database)
    chunk_collection,  \* MultimodalRAGChain.chunk_collection
    invoked,           \* history: the last MultimodalRAGChain.invoke, its inputs, its steps, its result
    embedded,          \* history: the last call of an embedder entry point, its arguments, what it gave back
    dims,              \* history: per x_rag collection, the lengths of the vectors inserted into or queried against it
    split,             \* DocumentChunker._split_by_size: the locals of the running call
    listed,            \* VectorDatabaseManager.list_documents: the collections it ran on and its answer
    poll,              \* MinerUParser.get_parse_result: the locals of the running call and what it did so far
    uploads,           \* the DocumentManager.upload_document calls under way, and what a concurrent query saw
    rag                \* history: the last RealEstateRAGChain.invoke, its inputs, its retrievals, its result

store_vars == <<now, pdf_collection, csv_collection, last, prev>>
chain_vars == <<case_collection, chunk_collection, invoked>>
tool_vars == <<embedded, dims, split, listed, poll>>
vars == <<now, pdf_collection, csv_collection, last, prev, case_collection, chunk_collection, invoked,
          embedded, dims, split, listed, poll, uploads, rag>>
more_vars == <<uploads, rag>>

DocIds == {"csv_" \o Timestamp(t) : t \in 0..MaxTime} \cup {"pdf_" \o Timestamp(t) : t \in 0..MaxTime}

NoContent == [state |-> "-"]

Record(op, path, arg, content, flt, out, del) ==
    [op |-> op, path |-> path, arg |-> arg, content |-> content, faulted |-> flt.at # "none",
     fault |-> flt.at,
     result |-> out.res, parsed |-> out.parsed, del |-> del,
     before_pdf |-> pdf_collection, before_csv |-> csv_collection]

NoPrev ==
    [op |-> "none", path |-> "-", ok |-> FALSE,
     document_id |-> "-", pdf_count |-> 0, csv_count |-> 0,
     pdf_grew |-> FALSE, csv_grew |-> FALSE]

\* Only a successful DocumentManager.upload_document is remembered.
Summary(l) ==
    IF l.op = "upload_document" /\ IsSuccess(l.result)
    THEN [op |-> l.op, path |-> l.path,
          ok |-> TRUE,
          document_id |-> Get(l.result, "document_id", "-"),
          pdf_count |-> Len(l.before_pdf), csv_count |-> Len(l.before_csv),
          pdf_grew |-> Len(pdf_collection) > Len(l.before_pdf),
          csv_grew |-> Len(csv_collection) > Len(l.before_csv)]
    ELSE NoPrev

NoEmbed ==
    [entry |-> "none", texts |-> [kind |-> "none", value |-> <<>>], image |-> "<None>",
     intent |-> "-", out |-> [returned |-> <<>>]]

NoSplit ==
    [pc |-> "idle", content |-> <<>>, chunk_size |-> 0, chunk_overlap |-> 0,
     start |-> 0, before |-> 0, end |-> 0, chunk_num |-> 0, iterations |-> 0]

NoListing ==
    [pc |-> "idle", pdf |-> <<>>, csv |-> <<>>, pdf_read |-> <<>>, csv_read |-> <<>>,
     result |-> [status |-> "none"]]

NoPoll ==
    [pc |-> "idle", max_retries |-> 0, attempt |-> 0, requests |-> 0, sleeps |-> 0,
     observed |-> <<>>, result |-> [status |-> "none"]]

NoUpload ==
    [pc |-> "idle", path |-> "-", content |-> NoContent, t |-> 0, prepared |-> FALSE,
     inserted |-> 0, result |-> [status |-> "none"]]

NoUploads == [calls |-> <<NoUpload, NoUpload>>, seen |-> <<>>]

NoRag ==
    [op |-> "none", query |-> "<None>", fault |-> "none", retrieved |-> FALSE,
     pdf_results |-> [documents |-> <<<<>>>>, metadatas |-> <<<<>>>>, distances |-> <<<<>>>>],
     csv_results |-> [documents |-> <<<<>>>>, metadatas |-> <<<<>>>>, distances |-> <<<<>>>>],
     generated |-> FALSE, result |-> [status |-> "none"]]

Init ==
    /\ now = 0
    /\ pdf_collection = <<>>
    /\ csv_collection = <<>>
    /\ last = [op |-> "init", path |-> "-", arg |-> "-", content |-> NoContent, faulted |-> FALSE,
               fault |-> "none",
               result |-> [status |-> "started"], parsed |-> "-", del |-> "-",
               before_pdf |-> <<>>, before_csv |-> <<>>]
    /\ prev = NoPrev
    /\ case_collection = <<>>
    /\ chunk_collection = <<>>
    /\ invoked = NoInvoke
    /\ embedded = NoEmbed
    /\ dims = [case |-> {}, chunk |-> {}]
    /\ split = NoSplit
    /\ listed = NoListing
    /\ poll = NoPoll
    /\ uploads = NoUploads
    /\ rag = NoRag

Fits(out) == Len(out.pdf) <= MaxChunks /\ Len(out.csv) <= MaxChunks

\* The inputs of the operations.  A fault is offered only where the
\* operation can get to its site: nothing is parsed, embedded or added for
\* a file that is absent or of an unsupported type.
Ingestible(p, c) == c.state = "ok" /\ p \in CsvPaths \cup PdfPaths
AllContents == UNION {Contents(p) : p \in Paths}
Inputs(faults) == {x \in Paths \X AllContents \X faults : x[2] \in Contents(x[1])}
IngestInputs ==
    {x \in Inputs({NoFault, ParseFault, EmbedFault, AddFault}) :
        x[3] = NoFault \/ Ingestible(x[1], x[2])}
UploadInputs == IngestInputs \cup {x \in Inputs({CheckFault}) : Ingestible(x[1], x[2])}
UpdateInputs == UploadInputs \cup Inputs(LookupFaults)
ByPathFaults == {NoFault} \cup LookupFaults \cup {f \in DeleteFaults : f.at = "del_get_csv"}

\* ------------------------------------------------------------------ actions
Tick ==
    /\ now < MaxTime
    /\ now' = now + 1
    /\ UNCHANGED <<pdf_collection, csv_collection, last, prev>>
    /\ UNCHANGED <<chain_vars, tool_vars, more_vars>>

UploadDocument ==
    \E x \in UploadInputs : \E m \in Metas(x[1]) :
        \E out \in {upload_document(x[1], m, x[2], x[3], now, pdf_collection, csv_collection)} :
           /\ Fits(out)
           /\ pdf_collection' = out.pdf
           /\ csv_collection' = out.csv
           /\ last' = Record("upload_document", x[1], "-", x[2], x[3], out, "-")
           /\ prev' = Summary(last)
           /\ UNCHANGED now
           /\ UNCHANGED <<chain_vars, tool_vars, more_vars>>

UpdateDocument ==
    \E x \in UpdateInputs : \E m \in Metas(x[1]) :
        \E out \in {update_document(x[1], m, x[2], x[3], now, pdf_collection, csv_collection)} :
           /\ Fits(out)
           /\ pdf_collection' = out.pdf
           /\ csv_collection' = out.csv
           /\ last' = Record("update_document", x[1], "-", x[2], x[3], out,
                             DeleteOutcome(x[1], x[3], pdf_collection, csv_collection))
           /\ prev' = Summary(last)
           /\ UNCHANGED now
           /\ UNCHANGED <<chain_vars, tool_vars, more_vars>>

DeleteDocument ==
    \E d \in DocIds : \E f \in DeleteFaults :
        \E out \in {delete_document(d, f, pdf_collection, csv_collection)} :
           /\ pdf_collection' = out.pdf
           /\ csv_collection' = out.csv
           /\ last' = Record("delete_document", "-", d, NoContent, f, out, "-")
           /\ prev' = Summary(last)
           /\ UNCHANGED now
           /\ UNCHANGED <<chain_vars, tool_vars, more_vars>>

\* The result is what the caller sees: a dict, or the exception that escaped.
DeleteDocumentByPath ==
    \E p \in Paths : \E f \in ByPathFaults :
        \E out \in {delete_document_by_path(p, f, pdf_collection, csv_collection)} :
           /\ pdf_collection' = out.pdf
           /\ csv_collection' = out.csv
           /\ last' = Record("delete_document_by_path", p, "-", NoContent, f, out, "-")
           /\ prev' = Summary(last)
           /\ UNCHANGED now
           /\ UNCHANGED <<chain_vars, tool_vars, more_vars>>

InterfaceUpload ==
    \E x \in IngestInputs :
        \E out \in {ui_upload_document(x[1], x[2], x[3], now, pdf_collection, csv_collection)} :
           /\ Fits(out)
           /\ pdf_collection' = out.pdf
           /\ csv_collection' = out.csv
           /\ last' = Record("ui_upload_document", x[1], "-", x[2], x[3], out, "-")
           /\ prev' = Summary(last)
           /\ UNCHANGED now
           /\ UNCHANGED <<chain_vars, tool_vars, more_vars>>

Next ==
    \/ Tick
    \/ UploadDocument
    \/ UpdateDocument
    \/ DeleteDocument
    \/ DeleteDocumentByPath
    \/ InterfaceUpload

Spec == Init /\ [][Next]_vars

TypeOK ==
    /\ now \in 0..MaxTime
    /\ Len(pdf_collection) <= MaxChunks
    /\ Len(csv_collection) <= MaxChunks

\* ------------------------------------------------------------------ listing and citation
RECURSIVE FirstDocumentIds(_, _)
FirstDocumentIds(collection, seen) ==
    IF collection = <<>> THEN <<>>
    ELSE IF Head(collection).metadata.document_id \in seen
    THEN FirstDocumentIds(Tail(collection), seen)
    ELSE <<Head(collection).metadata.document_id>>
             \o FirstDocumentIds(Tail(collection), seen \cup {Head(collection).metadata.document_id})

\* DocumentManager.list_documents: metadata['document_id'] and
\* metadata['filename'] are read without a default; a missing key raises
\* KeyError, which the method turns into an error result.
list_documents(pdf, csv) ==
    LET complete(collection) ==
            \A i \in 1..Len(collection) :
                {"document_id", "filename"} \subseteq DOMAIN collection[i].metadata
        entry(collection, doc_id, file_type) ==
            LET of_doc == get_where(collection, "document_id", doc_id)
            IN IF file_type = "pdf"
               THEN [document_id |-> doc_id,
                     filename |-> of_doc[1].metadata.filename,
                     file_type |-> "pdf",
                     total_pages |-> Len(of_doc),
                     upload_time |-> Get(of_doc[1].metadata, "upload_time", "unknown")]
               ELSE [document_id |-> doc_id,
                     filename |-> of_doc[1].metadata.filename,
                     file_type |-> "csv",
                     total_rows |-> Len(of_doc),
                     upload_time |-> Get(of_doc[1].metadata, "upload_time", "unknown")]
        entries(collection, file_type) ==
            LET doc_ids == FirstDocumentIds(collection, {})
            IN [k \in 1..Len(doc_ids) |-> entry(collection, doc_ids[k], file_type)]
    IN IF ~complete(pdf) \/ ~complete(csv)
       THEN [error |-> <<"Error listing documents: ", "'document_id'">>]
       ELSE [status |-> "success",
             pdf_documents |-> entries(pdf, "pdf"),
             csv_documents |-> entries(csv, "csv"),
             total_pdf |-> Len(entries(pdf, "pdf")),
             total_csv |-> Len(entries(csv, "csv")),
             total_documents |-> Len(entries(pdf, "pdf")) + Len(entries(csv, "csv"))]

ListedFilenames(listing) ==
    IF IsError(listing) THEN {}
    ELSE {listing.pdf_documents[k].filename : k \in 1..Len(listing.pdf_documents)}
             \cup {listing.csv_documents[k].filename : k \in 1..Len(listing.csv_documents)}

\* VectorDatabaseManager.list_documents reads a collection in batches of
\* page_size: Collection.get(limit, offset) hands out the items at the
\* positions offset+1 .. offset+limit, in the collection's order.
page_size == 500

\* Collection.get, had its window ended one position early.
get_page_exclusive(collection, limit, offset) ==
    SubSeq(collection, offset + 1,
           IF offset + limit - 1 < Len(collection) THEN offset + limit - 1 ELSE Len(collection))

get_page(collection, limit, offset) ==
    SubSeq(collection, offset + 1,
           IF offset + limit < Len(collection) THEN offset + limit ELSE Len(collection))

\* while offset < total: get a batch, offset += page_size.  The result is
\* everything the loop reads, in the order it reads it.
RECURSIVE ReadPages(_, _, _)
ReadPages(collection, offset, total) ==
    IF ~(offset < total) THEN <<>>
    ELSE get_page(collection, page_size, offset) \o ReadPages(collection, offset + page_size, total)

\* result[kind]: filename -> the set of units (pages or rows) seen, then
\* replaced by its size, None when the set is empty.  An absent or empty
\* metadata is skipped; a page_number of 0 counts as absent and "page" is
\* tried.  UnitOf is the set of the units the item adds: none or one.
UnitOf(meta, kind) ==
    IF kind = "pdf"
    THEN IF Get(meta, "page_number", 0) # 0 THEN {meta.page_number}
         ELSE IF "page" \in DOMAIN meta THEN {meta.page} ELSE {}
    ELSE IF "row" \in DOMAIN meta THEN {meta.row} ELSE {}

Aggregate(metas, kind) ==
    LET kept == {i \in 1..Len(metas) : DOMAIN metas[i] # {}}
        fnames == {Get(metas[i], "filename", "unknown." \o kind) : i \in kept}
        units(f) == UNION {UnitOf(metas[i], kind) :
                              i \in {j \in kept : Get(metas[j], "filename", "unknown." \o kind) = f}}
        total(f) == IF Cardinality(units(f)) = 0 THEN "<None>" ELSE ToString(Cardinality(units(f)))
    IN IF kind = "pdf"
       THEN [f \in fnames |-> [total_pages |-> total(f)]]
       ELSE [f \in fnames |-> [total_rows |-> total(f)]]

Metadatas(collection) == [i \in 1..Len(collection) |-> collection[i].metadata]

db_list_documents(pdf, csv, failed) ==
    IF failed THEN [error |-> <<"list_documents failed: ", "disk I/O error">>]
    ELSE LET pdf_read == ReadPages(Metadatas(pdf), 0, Len(pdf))
             csv_read == ReadPages(Metadatas(csv), 0, Len(csv))
         IN [pdf |-> Aggregate(pdf_read, "pdf"),
             csv |-> Aggregate(csv_read, "csv"),
             summary |-> [pdf_files |-> Cardinality(DOMAIN Aggregate(pdf_read, "pdf")),
                          csv_files |-> Cardinality(DOMAIN Aggregate(csv_read, "csv"))]]

\* RealEstateRAGChain.invoke: the citation line put in front of a CSV hit.
CsvCitation(metadata) ==
    <<"Data: ", Get(metadata, "filename", "unknown.csv"), ", Row ",
      IF "row" \in DOMAIN metadata THEN ToString(metadata.row) ELSE "unknown">>

\* The DocumentManager operations alone (no upload through the interface).
NextManager ==
    \/ Tick
    \/ UploadDocument
    \/ UpdateDocument
    \/ DeleteDocument
    \/ DeleteDocumentByPath

SpecManager == Init /\ [][NextManager]_vars

\* ------------------------------------------------------------------ x_rag: actions
\* A rebuild replaces the collection; the chain that is then constructed has
\* not answered anything yet.
BuildCaseDatabase ==
    \E data \in Datasets :
        /\ case_collection' = build_database("case", data)
        /\ invoked' = NoInvoke
        /\ UNCHANGED chunk_collection
        /\ UNCHANGED <<store_vars, tool_vars, more_vars>>

BuildChunkDatabase ==
    \E data \in Datasets :
        /\ chunk_collection' = build_database("chunk", data)
        /\ invoked' = NoInvoke
        /\ UNCHANGED case_collection
        /\ UNCHANGED <<store_vars, tool_vars, more_vars>>

\* One invoke of the chain is observed per construction: invoke changes
\* neither collection, so every invoke of every reachable pair of
\* collections is covered.
Invoke ==
    /\ invoked.op = "none"
    /\ \E x \in InvokeInputs :
           \E rank1 \in Rankings(Max2(Len(case_collection), 1)) :
               \E rank2 \in ChunkRankings(Max2(Len(chunk_collection), 1)) :
                   /\ invoked' = [op |-> "invoke", inputs |-> x[1], response |-> x[2],
                                  fault |-> x[3],
                                  steps |-> multimodal_invoke(x[1], x[2], x[3], rank1, rank2,
                                                              case_collection, chunk_collection)]
                   /\ UNCHANGED <<case_collection, chunk_collection>>
                   /\ UNCHANGED <<store_vars, tool_vars, more_vars>>

NextChain ==
    \/ BuildCaseDatabase
    \/ BuildChunkDatabase
    \/ Invoke

SpecChain == Init /\ [][NextChain]_vars

\* ------------------------------------------------------------------ RealEstateRAGChain
\* The single-stage chain over the two collections of the store.  pdf_k and
\* csv_k are read from rag_config.yaml.
pdf_k == 2
csv_k == 2

NoRelevantContent == "Sorry, no relevant document content was found to answer your question."

PdfCitation(metadata) ==
    <<"Document: ", Get(metadata, "filename", "unknown.pdf"), ", Page ",
      IF "page_number" \in DOMAIN metadata THEN ToString(metadata.page_number) ELSE "unknown">>

\* The hits of one query, each with its citation line in front.
FormattedPdf(results) ==
    IF results.documents = <<>> THEN <<>>
    ELSE [j \in 1..Len(results.documents[1]) |->
             PdfCitation(results.metadatas[1][j]) \o <<"\n">> \o results.documents[1][j]]

FormattedCsv(results) ==
    IF results.documents = <<>> THEN <<>>
    ELSE [j \in 1..Len(results.documents[1]) |->
             CsvCitation(results.metadatas[1][j]) \o <<"\n">> \o results.documents[1][j]]

\* all_documents, had the hits been put in front of the list as they came.
all_documents_prepended(pdf_results, csv_results) ==
    LET forward == FormattedPdf(pdf_results) \o FormattedCsv(csv_results)
    IN [j \in 1..Len(forward) |-> forward[Len(forward) + 1 - j]]

all_documents(pdf_results, csv_results) ==
    FormattedPdf(pdf_results) \o FormattedCsv(csv_results)

RagFaults == {"none", "embed", "pdf_query", "csv_query", "llm"}

RagSteps(res, retrieved, pdf_results, csv_results, generated) ==
    [res |-> res, retrieved |-> retrieved, pdf_results |-> pdf_results,
     csv_results |-> csv_results, generated |-> generated]

\* RealEstateRAGChain.invoke, had it handed an empty context to the answer
\* generator like the two-stage chain does.
real_estate_invoke_always_generates(inputs, flt, rank_pdf, rank_csv, pdf, csv) ==
    LET q == Get(inputs, "query", None)
        pdf_results == query(pdf, rank_pdf, pdf_k, None)
        csv_results == query(csv, rank_csv, csv_k, None)
        documents == all_documents(pdf_results, csv_results)
        context == JoinWith(documents, Separator)
    IN IF ~Truthy(q) THEN RagSteps(Raise("Query must be provided in inputs"), FALSE, NoResults, NoResults, FALSE)
       ELSE IF flt \in {"embed", "pdf_query"}
       THEN RagSteps(Raise("retrieval failed"), FALSE, NoResults, NoResults, FALSE)
       ELSE IF flt = "csv_query"
       THEN RagSteps(Raise("retrieval failed"), FALSE, pdf_results, NoResults, FALSE)
       ELSE IF flt = "llm"
       THEN RagSteps(Raise("answer model failed"), TRUE, pdf_results, csv_results, FALSE)
       ELSE RagSteps([answer |-> "generated answer", context |-> context,
                      pdf_results |-> pdf_results, csv_results |-> csv_results],
                     TRUE, pdf_results, csv_results, TRUE)

real_estate_invoke(inputs, flt, rank_pdf, rank_csv, pdf, csv) ==
    LET q == Get(inputs, "query", None)
        query_embedding == embed(StrArg(q), flt = "embed")
        pdf_results == query(pdf, rank_pdf, pdf_k, None)
        csv_results == query(csv, rank_csv, csv_k, None)
        documents == all_documents(pdf_results, csv_results)
        context == JoinWith(documents, Separator)
    IN IF ~Truthy(q) THEN RagSteps(Raise("Query must be provided in inputs"), FALSE, NoResults, NoResults, FALSE)
       ELSE IF Raised(query_embedding) THEN RagSteps(query_embedding, FALSE, NoResults, NoResults, FALSE)
       ELSE IF flt = "pdf_query" THEN RagSteps(Raise("query failed"), FALSE, NoResults, NoResults, FALSE)
       ELSE IF flt = "csv_query" THEN RagSteps(Raise("query failed"), FALSE, pdf_results, NoResults, FALSE)
       ELSE IF documents = <<>>
       THEN RagSteps([answer |-> NoRelevantContent, context |-> <<>>,
                      pdf_results |-> pdf_results, csv_results |-> csv_results],
                     TRUE, pdf_results, csv_results, FALSE)
       ELSE IF flt = "llm"
       THEN RagSteps(Raise("answer model failed"), TRUE, pdf_results, csv_results, FALSE)
       ELSE RagSteps([answer |-> "generated answer", context |-> context,
                      pdf_results |-> pdf_results, csv_results |-> csv_results],
                     TRUE, pdf_results, csv_results, TRUE)

RagInputs == {[query |-> q] : q \in {None, "", "rent of unit 3"}} \cup {<<>>}

RagInvoke ==
    /\ rag.op = "none"
    /\ \E inputs \in RagInputs, flt \in RagFaults,
          rank_pdf \in ChunkRankings(Len(pdf_collection)),
          rank_csv \in ChunkRankings(Len(csv_collection)) :
           \E out \in {real_estate_invoke(inputs, flt, rank_pdf, rank_csv,
                                          pdf_collection, csv_collection)} :
               rag' = [op |-> "invoke", query |-> Get(inputs, "query", None), fault |-> flt,
                       retrieved |-> out.retrieved, pdf_results |-> out.pdf_results,
                       csv_results |-> out.csv_results, generated |-> out.generated,
                       result |-> out.res]
    /\ UNCHANGED <<store_vars, chain_vars, tool_vars, uploads>>

NextRag ==
    \/ UploadDocument
    \/ RagInvoke

SpecRag == Init /\ [][NextRag]_vars

\* ------------------------------------------------------------------ concurrent uploads
\* Two DocumentManager.upload_document calls of CSV files running side by
\* side, and a query that may come in between any two of their steps.  A
\* step is what a call does up to and including its next call of the index
\* store: the existence check (Collection.get), the preparation (parse,
\* document_id from the clock, chunking, embedding: no store call), and the
\* insert (one Collection.add).
Calls == {1, 2}

Ended(call, result) == [call EXCEPT !.pc = "done", !.result = result]

UploadBegin(c) ==
    /\ uploads.calls[c].pc = "idle"
    /\ \E file_path \in CsvPaths, content \in Contents("a.csv") :
           uploads' = [uploads EXCEPT !.calls[c] =
                          IF content.state = "missing"
                          THEN Ended([@ EXCEPT !.path = file_path, !.content = content],
                                     [error |-> <<"File not found: ", file_path>>])
                          ELSE [@ EXCEPT !.pc = "check", !.path = file_path, !.content = content]]
    /\ UNCHANGED <<store_vars, chain_vars, tool_vars, rag>>

\* upload_csv up to the answer of _check_document_exists.
UploadCheck(c) ==
    /\ uploads.calls[c].pc = "check"
    /\ \E existing_result \in {_check_document_exists(uploads.calls[c].path, "csv", NoFault,
                                                      pdf_collection, csv_collection)} :
           uploads' = [uploads EXCEPT !.calls[c] =
                          IF Raised(existing_result)
                          THEN Ended(@, [error |-> <<"Error uploading CSV: ", existing_result.exc>>])
                          ELSE IF existing_result.exists
                          THEN Ended(@, [error |-> <<"Document already exists: ",
                                                     existing_result.document_id>>])
                          ELSE [@ EXCEPT !.pc = "prepare"]]
    /\ UNCHANGED <<store_vars, chain_vars, tool_vars, rag>>

\* add_csv_document up to the embeddings: the clock is read for the
\* document_id, nothing is read from or written to the store.
UploadPrepare(c) ==
    /\ uploads.calls[c].pc = "prepare"
    /\ \E dry \in {add_csv_document(uploads.calls[c].path, NoMeta, uploads.calls[c].content,
                                    NoFault, now, <<>>, <<>>)} :
           uploads' = [uploads EXCEPT !.calls[c] =
                          IF IsError(dry.res) THEN Ended(@, dry.res)
                          ELSE [@ EXCEPT !.pc = "insert", !.t = now, !.prepared = TRUE]]
    /\ UNCHANGED <<store_vars, chain_vars, tool_vars, rag>>

\* csv_collection.add of all the chunks, and the return.
UploadInsert(c) ==
    /\ uploads.calls[c].pc = "insert"
    /\ \E out \in {add_csv_document(uploads.calls[c].path, NoMeta, uploads.calls[c].content,
                                    NoFault, uploads.calls[c].t, pdf_collection, csv_collection)} :
           /\ Fits(out)
           /\ csv_collection' = out.csv
           /\ uploads' = [uploads EXCEPT !.calls[c] =
                             Ended([@ EXCEPT !.inserted = Len(out.csv) - Len(csv_collection)],
                                   out.res)]
    /\ UNCHANGED <<now, pdf_collection, last, prev, chain_vars, tool_vars, rag>>

\* A query of another client: it sees what the collection holds now.
ConcurrentQuery ==
    /\ uploads.seen # csv_collection
    /\ uploads' = [uploads EXCEPT !.seen = csv_collection]
    /\ UNCHANGED <<store_vars, chain_vars, tool_vars, rag>>

NextRace ==
    \/ Tick
    \/ \E c \in Calls : UploadBegin(c)
    \/ \E c \in Calls : UploadCheck(c)
    \/ \E c \in Calls : UploadPrepare(c)
    \/ \E c \in Calls : UploadInsert(c)
    \/ ConcurrentQuery

SpecRace == Init /\ [][NextRace]_vars

\* ------------------------------------------------------------------ the fixed-size splitter
\* DocumentChunker._split_by_size, one action per pass of its while loop,
\* for a chunker constructed with any chunk_size and chunk_overlap such
\* that 0 <= chunk_overlap < chunk_size.  Contents are strings of letters
\* and full stops.
MaxContent == 7
MaxSize == 6
MaxIterations == 8

RECURSIVE Strings(_)
Strings(n) ==
    IF n = 0 THEN {<<>>}
    ELSE Strings(n - 1) \cup {Append(c, x) : c \in {d \in Strings(n - 1) : Len(d) = n - 1},
                                             x \in {"x", "."}}

SplitStart ==
    /\ split.pc = "idle"
    /\ \E content \in Strings(MaxContent), size \in 1..MaxSize :
           \E overlap \in 0..(size - 1) :
               split' = [pc |-> "loop", content |-> content, chunk_size |-> size,
                         chunk_overlap |-> overlap, start |-> 0, before |-> 0, end |-> 0,
                         chunk_num |-> 0, iterations |-> 0]
    /\ UNCHANGED <<store_vars, chain_vars, more_vars, embedded, dims, listed, poll>>

SplitIterate ==
    /\ split.pc = "loop"
    /\ split.start < Len(split.content)
    /\ split.iterations < MaxIterations
    /\ \E w \in {SplitWindow(split.content, split.chunk_size, split.chunk_overlap, split.start)} :
           split' = [split EXCEPT !.before = split.start,
                                  !.start = w.start,
                                  !.end = w.end,
                                  !.chunk_num = IF w.chunk_content # <<>> THEN @ + 1 ELSE @,
                                  !.iterations = @ + 1]
    /\ UNCHANGED <<store_vars, chain_vars, more_vars, embedded, dims, listed, poll>>

SplitReturn ==
    /\ split.pc = "loop"
    /\ ~(split.start < Len(split.content))
    /\ split' = [split EXCEPT !.pc = "done"]
    /\ UNCHANGED <<store_vars, chain_vars, more_vars, embedded, dims, listed, poll>>

NextSplit ==
    \/ SplitStart
    \/ SplitIterate
    \/ SplitReturn

SpecSplit == Init /\ [][NextSplit]_vars

\* ------------------------------------------------------------------ the paginated listing
\* VectorDatabaseManager.list_documents on collections of a size below, at
\* and above the page size.  Item i of a collection belongs to file
\* i mod files and is that file's next page or row; with gaps, every 7th
\* item has no page or row and every 11th has no metadata.
MaxFiles == 2

Sizes == {0, 1, page_size - 1, page_size, page_size + 1, 2 * page_size, 2 * page_size + 1}

StoredMetadata(kind, i, files, gaps) ==
    LET fname == "f" \o ToString(i % files) \o "." \o kind
        unit == ((i - 1) \div files) + 1
    IN IF gaps /\ i % 11 = 0 THEN <<>>
       ELSE IF gaps /\ i % 7 = 0 THEN [filename |-> fname, file_type |-> kind]
       ELSE IF kind = "pdf" THEN [filename |-> fname, file_type |-> kind, page_number |-> unit]
       ELSE [filename |-> fname, file_type |-> kind, row |-> unit]

Stored(kind, n, files, gaps) ==
    [i \in 1..n |-> [id |-> kind \o "_" \o ToString(i), metadata |-> StoredMetadata(kind, i, files, gaps)]]

Positions(collection) == [i \in 1..Len(collection) |-> i]

ListDocuments ==
    /\ listed.pc = "idle"
    /\ \E pdf_total \in Sizes, csv_total \in Sizes, files \in 1..MaxFiles, gaps \in BOOLEAN,
          failed \in BOOLEAN :
           \E pdf \in {Stored("pdf", pdf_total, files, gaps)}, csv \in {Stored("csv", csv_total, files, gaps)} :
               listed' = [pc |-> "done", pdf |-> pdf, csv |-> csv,
                          pdf_read |-> IF failed THEN <<>> ELSE ReadPages(Positions(pdf), 0, Len(pdf)),
                          csv_read |-> IF failed THEN <<>> ELSE ReadPages(Positions(csv), 0, Len(csv)),
                          result |-> db_list_documents(pdf, csv, failed)]
    /\ UNCHANGED <<store_vars, chain_vars, more_vars, embedded, dims, split, poll>>

NextList == ListDocuments

SpecList == Init /\ [][NextList]_vars

\* ------------------------------------------------------------------ the parser's poll loop
\* get_parse_result(task_id, max_retries, wait_seconds): one action per
\* status request and one per sleep.  A poll observes what the service
\* answered: HTTP 200 with code 0 and a state, HTTP 200 with another code,
\* another HTTP status, or an exception of requests.get.
MaxRetries == 3

InProgress == {"pending", "running", "converting"}

PollResponses == InProgress \cup {"done", "failed", "queued", "code -1", "http 500", "exception"}

\* What the loop body does with the answer of the request of this attempt
\* (attempts count from 0), had it slept after the last attempt as well.
poll_outcome_always_sleeps(attempt, max_retries, response) ==
    IF response = "exception"
    THEN [pc |-> "done", result |-> [error |-> <<"Error getting result: ", "connection reset">>]]
    ELSE IF response = "http 500"
    THEN [pc |-> "done", result |-> [error |-> <<"Failed to get task result: ", "500">>]]
    ELSE IF response = "code -1"
    THEN [pc |-> "done", result |-> [error |-> <<"API error: ", "Unknown error">>]]
    ELSE IF response = "done"
    THEN [pc |-> "done", result |-> [status |-> "success", task_id |-> "t1"]]
    ELSE IF response = "failed"
    THEN [pc |-> "done", result |-> [error |-> <<"Parsing failed: ", "Unknown error">>]]
    ELSE IF response \in InProgress
    THEN [pc |-> "sleep", result |-> [status |-> "none"]]
    ELSE [pc |-> "done", result |-> [error |-> <<"Unknown state: ", response>>]]

\* What the loop body does with the answer of the request of this attempt
\* (attempts count from 0).
poll_outcome(attempt, max_retries, response) ==
    IF response = "exception"
    THEN [pc |-> "done", result |-> [error |-> <<"Error getting result: ", "connection reset">>]]
    ELSE IF response = "http 500"
    THEN [pc |-> "done", result |-> [error |-> <<"Failed to get task result: ", "500">>]]
    ELSE IF response = "code -1"
    THEN [pc |-> "done", result |-> [error |-> <<"API error: ", "Unknown error">>]]
    ELSE IF response = "done"
    THEN [pc |-> "done", result |-> [status |-> "success", task_id |-> "t1"]]
    ELSE IF response = "failed"
    THEN [pc |-> "done", result |-> [error |-> <<"Parsing failed: ", "Unknown error">>]]
    ELSE IF response \in InProgress
    THEN IF attempt < max_retries - 1
         THEN [pc |-> "sleep", result |-> [status |-> "none"]]
         ELSE [pc |-> "done", result |-> [error |-> <<"Parsing timeout">>]]
    ELSE [pc |-> "done", result |-> [error |-> <<"Unknown state: ", response>>]]

\* The call up to the loop: without MINERU_API_KEY it returns at once; with
\* max_retries = 0 the loop body never runs and the function returns None.
PollStart ==
    /\ poll.pc = "idle"
    /\ \E max_retries \in 0..MaxRetries, api_key \in BOOLEAN :
           poll' = [pc |-> IF api_key /\ max_retries > 0 THEN "request" ELSE "done",
                    max_retries |-> max_retries, attempt |-> 0, requests |-> 0, sleeps |-> 0,
                    observed |-> <<>>,
                    result |-> IF ~api_key THEN [error |-> <<"MINERU_API_KEY not found">>]
                               ELSE IF max_retries = 0 THEN [returned |-> None]
                               ELSE [status |-> "none"]]
    /\ UNCHANGED <<store_vars, chain_vars, more_vars, embedded, dims, split, listed>>

PollRequest ==
    /\ poll.pc = "request"
    /\ poll.attempt < poll.max_retries
    /\ \E response \in PollResponses :
           \E outcome \in {poll_outcome(poll.attempt, poll.max_retries, response)} :
               poll' = [poll EXCEPT !.pc = outcome.pc,
                                    !.requests = @ + 1,
                                    !.observed = Append(@, response),
                                    !.result = outcome.result]
    /\ UNCHANGED <<store_vars, chain_vars, more_vars, embedded, dims, split, listed>>

\* time.sleep(wait_seconds); continue.  When range(max_retries) is used up
\* the loop ends and the function returns None.
PollSleep ==
    /\ poll.pc = "sleep"
    /\ poll' = [poll EXCEPT !.sleeps = @ + 1,
                            !.attempt = @ + 1,
                            !.pc = IF poll.attempt + 1 < poll.max_retries THEN "request" ELSE "done",
                            !.result = IF poll.attempt + 1 < poll.max_retries THEN @
                                       ELSE [returned |-> None]]
    /\ UNCHANGED <<store_vars, chain_vars, more_vars, embedded, dims, split, listed>>

NextPoll ==
    \/ PollStart
    \/ PollRequest
    \/ PollSleep

SpecPoll == Init /\ [][NextPoll]_vars

\* ------------------------------------------------------------------ the embedders
\* The calls of the embedder entry points, one action per call site, each
\* with the arguments that site can pass.  dims collects, per collection,
\* the lengths of the vectors that were given to it.
MaxTexts == 3

CaseTexts == {"Title: case " \o ToString(k) : k \in 1..MaxTexts}

ChunkTexts == {"finding " \o ToString(k) : k \in 1..MaxTexts}

Images == {None, "xray"}

Intents == {<<"image_only">>, <<"text_only">>, <<"mixed_query">>, <<"unclear">>}

EmbedRecord(entry, texts, image, intent, out) ==
    [entry |-> entry, texts |-> texts, image |-> image, intent |-> intent, out |-> out]

Given(collection, out) ==
    IF Raised(out) THEN dims
    ELSE [dims EXCEPT ![collection] = @ \cup {Len(out.returned)}]

\* x_rag build_database(level="case"): one case, with or without its image.
EmbedCase ==
    \E doc_text \in CaseTexts, image \in Images :
        \E out \in {embedding_function(doc_text, image)} :
            /\ embedded' = EmbedRecord("build_case", ListArg(<<doc_text>>), image, "-", out)
            /\ dims' = Given("case", out)
            /\ UNCHANGED <<store_vars, chain_vars, more_vars, split, listed, poll>>

\* x_rag build_database(level="chunk"): one chunk, images=[None].
EmbedChunk ==
    \E doc_text \in ChunkTexts :
        \E out \in {embedding_function(doc_text, None)} :
            /\ embedded' = EmbedRecord("build_chunk", ListArg(<<doc_text>>), None, "-", out)
            /\ dims' = Given("chunk", out)
            /\ UNCHANGED <<store_vars, chain_vars, more_vars, split, listed, poll>>

\* MultimodalRAGChain.invoke up to the stage-1 query vector.
EmbedStage1 ==
    \E inputs \in QueryInputs, response \in Intents :
        \E routed \in {route(response, inputs.input, inputs.image)} :
            \E out \in {IF ~Truthy(inputs.input) /\ ~Truthy(inputs.image)
                        THEN Raise("Query must contain at least 'input' text or an 'image'.")
                        ELSE embedding_function(routed.query_text, routed.query_image)} :
                /\ embedded' = EmbedRecord(IF ~Truthy(inputs.input) /\ ~Truthy(inputs.image)
                                           THEN "invoke" ELSE "stage1",
                                           ListArg(<<IF ~Truthy(inputs.input) /\ ~Truthy(inputs.image)
                                                     THEN inputs.input ELSE routed.query_text>>),
                                           IF ~Truthy(inputs.input) /\ ~Truthy(inputs.image)
                                           THEN inputs.image ELSE routed.query_image,
                                           routed.intent, out)
                /\ dims' = Given("case", out)
                /\ UNCHANGED <<store_vars, chain_vars, more_vars, split, listed, poll>>

\* MultimodalRAGChain._chunk_level_retrieval's query vector, for an invoke
\* whose stage 1 gave a case: the text, or "image analysis", and no image.
EmbedStage2 ==
    \E inputs \in QueryInputs, response \in Intents :
        \E routed \in {route(response, inputs.input, inputs.image)} :
            /\ Truthy(inputs.input) \/ Truthy(inputs.image)
            /\ ~Raised(embedding_function(routed.query_text, routed.query_image))
            /\ \E text \in {IF routed.query_text = None THEN "image analysis" ELSE routed.query_text} :
                   \E out \in {embedding_function(text, None)} :
                       /\ embedded' = EmbedRecord("stage2", ListArg(<<text>>), None, routed.intent, out)
                       /\ dims' = Given("chunk", out)
            /\ UNCHANGED <<store_vars, chain_vars, more_vars, split, listed, poll>>

\* DocumentEmbedder.embed, as add_pdf_document, add_csv_document and the
\* retrieval chain call it, and with the arguments its signature admits.
EmbedTexts ==
    {NoneArg, StrArg(""), StrArg("what is shown"), ListArg(<<>>)}
        \cup {ListArg([i \in 1..n |-> "finding " \o ToString(i)]) : n \in 1..MaxTexts}

EmbedTextsCall ==
    \E texts \in EmbedTexts, failed \in BOOLEAN :
        \E out \in {embed(texts, failed)} :
            /\ embedded' = EmbedRecord("embed", texts, None, "-", out)
            /\ UNCHANGED <<store_vars, chain_vars, more_vars, dims, split, listed, poll>>

NextEmbed ==
    \/ EmbedCase
    \/ EmbedChunk
    \/ EmbedStage1
    \/ EmbedStage2
    \/ EmbedTextsCall

SpecEmbed == Init /\ [][NextEmbed]_vars

\* ------------------------------------------------------------------ properties
Items(collection) == {collection[i] : i \in 1..Len(collection)}
Unchanged == pdf_collection = last.before_pdf /\ csv_collection = last.before_csv

\* C1: upload/delete round trip.  When delete_document(d) directly follows
\* the successful upload_document(f) that returned d (and the storage layer
\* does not fail), the delete reports success, every collection that received
\* chunks of f is back at its count from before the upload, and the listing
\* does not report the filename of f.
C1_UploadDeleteRoundTrip ==
    ( /\ last.op = "delete_document"
      /\ ~last.faulted
      /\ prev.op = "upload_document"
      /\ prev.ok
      /\ last.arg = prev.document_id )
    => /\ IsSuccess(last.result)
       /\ prev.csv_grew => Len(csv_collection) = prev.csv_count
       /\ prev.pdf_grew => Len(pdf_collection) = prev.pdf_count
       /\ prev.path \notin ListedFilenames(list_documents(pdf_collection, csv_collection))

\* C2: duplicate rejection.  When upload_document(f) directly follows a
\* successful upload_document(f) of the same file (still on disk, no storage
\* failure), the second call answers with the error "Document already
\* exists" and leaves both collections as the first call left them.
C2_DuplicateRejected ==
    ( /\ last.op = "upload_document"
      /\ ~last.faulted
      /\ last.content.state = "ok"
      /\ prev.op = "upload_document"
      /\ prev.ok
      /\ prev.path = last.path )
    => /\ IsError(last.result)
       /\ Head(last.result.error) = "Document already exists: "
       /\ Unchanged

\* C3: after any sequence of DocumentManager calls, the items of a
\* collection that were derived from files of one name all belong to one
\* document_id.
C3_OneVersionPerFilename ==
    \A collection \in {pdf_collection, csv_collection} :
        \A x, y \in Items(collection) :
            x.origin.path = y.origin.path => x.origin.document_id = y.origin.document_id

\* C7: every stored item carries the name of the file it was ingested from
\* and its page number (PDF) or row number (CSV).
C7_CitationMetadata ==
    /\ \A x \in Items(pdf_collection) :
           /\ {"filename", "page_number"} \subseteq DOMAIN x.metadata
           /\ x.metadata.filename = x.origin.path
    /\ \A x \in Items(csv_collection) :
           /\ {"filename", "row"} \subseteq DOMAIN x.metadata
           /\ x.metadata.filename = x.origin.path

\* C4 speaks of a delete_document_by_path that returns success.  No state
\* of the program has one: the lookup by filename either finds nothing or
\* finds an item whose metadata has no document_id.
DeleteByPathNeverSucceeds ==
    last.op = "delete_document_by_path" => (Raised(last.result) \/ IsError(last.result))

\* C5: when the delete step of update_document fails for another reason
\* than the absence of the document, whatever the text of the failure,
\* update_document answers with an error and inserts nothing.
C5_UpdateAbortsOnFailedDelete ==
    (last.op = "update_document" /\ last.del = "failed")
    => /\ IsError(last.result)
       /\ Ids(pdf_collection) \subseteq Ids(last.before_pdf)
       /\ Ids(csv_collection) \subseteq Ids(last.before_csv)

\* An update whose delete step failed with a text that mentions "not found".
C5_Witness ==
    /\ last.op = "update_document"
    /\ last.del = "failed"
    /\ IsError(last.result)
    /\ MentionsNotFound(last.result.error)

C8_RowChunkCount ==
    ( /\ last.op \in {"upload_document", "update_document", "ui_upload_document"}
      /\ last.path \in CsvPaths
      /\ last.parsed = "ok"
      /\ ~last.faulted )
    => LET n == Len(last.content.rows)
           chunks == chunk_csv_markdown(parse_csv(last.path, last.content, NoFault).markdown_content,
                                        [document_id |-> "csv_" \o Timestamp(now)])
       IN /\ Len(chunks) = n
          /\ \A i \in 1..Len(chunks) :
                 /\ chunks[i].metadata.row \in 1..n
                 /\ chunks[i].metadata.total_rows = n

\* C9: after a CSV is ingested, the item whose content is the k-th data row
\* is stored with row k and is cited as "Row k".
C9_RowCitation ==
    ( /\ last.op = "upload_document"
      /\ last.path \in CsvPaths
      /\ IsSuccess(last.result)
      /\ \A y \in Items(last.before_csv) : y.origin.document_id # last.result.document_id )
    => \A k \in 1..Len(last.content.rows) :
           \E x \in Items(csv_collection) :
               /\ x.origin.document_id = last.result.document_id
               /\ x.document = Strip(TableLine(last.content.rows[k]))
               /\ x.metadata.row = k
               /\ CsvCitation(x.metadata) = <<"Data: ", x.metadata.filename, ", Row ", ToString(k)>>

\* C10: when parse_pdf succeeds (and the embedder and the store do not
\* fail), upload_document of the PDF adds one item per page to the PDF
\* collection and answers success with pages_added equal to that number.
C10_ParsedPdfIngested ==
    ( /\ last.op = "upload_document"
      /\ last.path \in PdfPaths
      /\ last.parsed = "ok"
      /\ ~last.faulted )
    => /\ IsSuccess(last.result)
       /\ last.result.pages_added = last.content.pages
       /\ Len(pdf_collection) = Len(last.before_pdf) + last.content.pages

\* What the caller of an ingestion is told on failure: an error dict, or,
\* from the interface, a message that starts with "... failed: ".
ReportsFailure(result) ==
    \/ IsError(result)
    \/ "message" \in DOMAIN result /\ Head(result.message) \in {"PDF failed: ", "CSV failed: "}

\* C11: no partial writes.  When parsing fails, or the embedder fails,
\* during add_pdf_document or add_csv_document, the caller is told of an
\* error and both collections hold exactly what they held before the call.
C11_NoPartialWrites ==
    ( /\ last.op \in {"upload_document", "ui_upload_document"}
      /\ \/ last.parsed = "error"
         \/ last.parsed = "ok" /\ last.fault = "embed" )
    => /\ ReportsFailure(last.result)
       /\ Unchanged

\* The embedder fails while a CSV is added to a collection that already
\* holds items.
C11_Witness ==
    /\ last.op = "ui_upload_document"
    /\ last.path \in CsvPaths
    /\ last.parsed = "ok"
    /\ last.fault = "embed"
    /\ last.before_csv # <<>>
    /\ ReportsFailure(last.result)

\* C12: delete_document(d), called when no item of either collection has
\* document_id d, answers with an error and leaves both collections as
\* they were.
C12_DeleteUnknownIdIsError ==
    ( /\ last.op = "delete_document"
      /\ get_where(last.before_pdf, "document_id", last.arg) = <<>>
      /\ get_where(last.before_csv, "document_id", last.arg) = <<>> )
    => /\ IsError(last.result)
       /\ ~IsSuccess(last.result)
       /\ Unchanged

\* delete_document of an id nothing is stored under, on a store that is not
\* empty and does not fail.
C12_Witness ==
    /\ last.op = "delete_document"
    /\ ~last.faulted
    /\ last.before_csv # <<>>
    /\ IsError(last.result)
    /\ Head(last.result.error) = "Document not found: "

\* The storage layer failed inside _delete_from_collection for one of the
\* collections: at its get, or at its delete when there was something to
\* delete.
StorageErrorDuringDelete(l) ==
    \/ l.fault \in {"del_get_pdf", "del_get_csv"}
    \/ l.fault = "del_delete_pdf" /\ get_where(l.before_pdf, "document_id", l.arg) # <<>>
    \/ l.fault = "del_delete_csv" /\ get_where(l.before_csv, "document_id", l.arg) # <<>>

\* C13: when the removal fails with a storage error in one collection
\* during delete_document (the other collection's matching items were
\* removed, or it had none), the answer is an error and never status
\* success.
C13_PartialDeletionIsError ==
    (last.op = "delete_document" /\ StorageErrorDuringDelete(last))
    => /\ IsError(last.result)
       /\ ~IsSuccess(last.result)

\* The CSV collection fails during a delete_document while it holds items;
\* the PDF collection had no matching item.
C13_Witness ==
    /\ last.op = "delete_document"
    /\ last.fault = "del_get_csv"
    /\ last.before_csv # <<>>
    /\ IsError(last.result)

\* C14: cascaded narrowing.  Whenever invoke queries the chunk collection,
\* the where filter is the case_id of the stage-1 result with the lowest
\* distance, and of no other stage-1 result.
C14_CascadedNarrowing ==
    (invoked.op = "invoke" /\ invoked.steps.filter # None)
    => LET metadatas == invoked.steps.case_results.metadatas[1]
           distances == invoked.steps.case_results.distances[1]
           nearest == CHOOSE j \in 1..Len(distances) : \A i \in 1..Len(distances) : distances[j] <= distances[i]
       IN /\ invoked.steps.filter = metadatas[nearest].case_id
          /\ \A j \in 1..Len(metadatas) :
                 j # nearest => invoked.steps.filter # metadatas[j].case_id

\* Stage 1 returned two cases, the nearest of which is not the first case
\* of the collection, and stage 2 returned chunks.
C14_Witness ==
    /\ invoked.op = "invoke"
    /\ invoked.steps.filter # None
    /\ Len(invoked.steps.case_results.metadatas[1]) >= 2
    /\ invoked.steps.filter # case_collection[1].metadata.case_id
    /\ invoked.steps.chunk_results.documents # <<>>

\* C15: when stage 1 returns zero matches, invoke does not query the chunk
\* collection and what it returns is a no-relevant-content result, not a
\* generated answer.
C15_EmptyStage1ShortCircuits ==
    ( /\ invoked.op = "invoke"
      /\ ~Raised(invoked.steps.res)
      /\ invoked.steps.case_results.metadatas[1] = <<>> )
    => /\ invoked.steps.filter = None
       /\ ~invoked.steps.generated
       /\ Get(invoked.steps.res, "answer", "-") # "generated answer"

\* C16: the context handed to the answer model holds the retrieved
\* fragments in ranked order, joined by the separator, each with a citation
\* made of its own metadata (the chunk metadata identifies its unit by
\* case_id).
C16_ContextCitesFragments ==
    (invoked.op = "invoke" /\ invoked.steps.generated)
    => LET documents == invoked.steps.chunk_results.documents
           metadatas == invoked.steps.chunk_results.metadatas
           distances == invoked.steps.chunk_results.distances
           context == invoked.steps.context
       IN /\ \A j \in 1..(Len(distances) - 1) : distances[j] <= distances[j + 1]
          /\ documents # <<>> =>
                 Cardinality({i \in 1..Len(context) : context[i] = Separator}) = Len(documents) - 1
          /\ \A j \in 1..Len(metadatas) :
                 \E i \in 1..Len(context) : context[i] = metadatas[j].case_id

\* C17: intent normalization.  The intent invoke works with is one of
\* image_only, text_only, mixed_query; an answer of the intent model that
\* names neither image_only nor text_only is treated as mixed, with the
\* text and the image of the query both kept.
C17_IntentNormalized ==
    (invoked.op = "invoke" /\ invoked.steps.intent # "-")
    => /\ invoked.steps.intent \in {"image_only", "text_only", "mixed_query"}
       /\ (\A i \in 1..Len(invoked.response) :
               LowerToken(invoked.response[i]) \notin {"image_only", "text_only"})
          => /\ invoked.steps.intent = "mixed_query"
             /\ invoked.steps.text = invoked.inputs.input
             /\ invoked.steps.image = invoked.inputs.image

\* A query with text and image whose classification is free text: answered
\* as a mixed query.
C17_Witness ==
    /\ invoked.op = "invoke"
    /\ invoked.response = <<"I", " ", "cannot", " ", "tell">>
    /\ invoked.steps.generated
    /\ invoked.steps.intent = "mixed_query"
    /\ Truthy(invoked.steps.text)
    /\ Truthy(invoked.steps.image)

\* C18: when the call of the intent model raises, invoke goes on with the
\* query as a mixed query and does not fail.
C18_ClassificationFailureAbsorbed ==
    ( /\ invoked.op = "invoke"
      /\ invoked.fault = "intent"
      /\ Truthy(invoked.inputs.input) \/ Truthy(invoked.inputs.image) )
    => /\ ~Raised(invoked.steps.res)
       /\ invoked.steps.intent = "mixed_query"

\* C19: every public operation hands its caller a result value, a success
\* payload or an error descriptor, whatever the input and whatever fails
\* underneath; no exception leaves it.
C19_NoExceptionEscapes ==
    /\ ~Raised(last.result)
    /\ ~Raised(invoked.steps.res)

\* The unit of a stored item: its row (CSV) or its page (PDF).
Unit(x) ==
    IF "row" \in DOMAIN x.metadata THEN x.metadata.row ELSE Get(x.metadata, "page_number", 0)

\* C20: chunk ids are stable across re-ingestion.  After a successful
\* update_document of a file that was ingested before, every item of the
\* new ingestion has the id of the earlier item of the same file and unit.
C20_StableChunkIds ==
    (last.op = "update_document" /\ IsSuccess(last.result))
    => \A x \in Items(pdf_collection) \cup Items(csv_collection) :
           \A y \in Items(last.before_pdf) \cup Items(last.before_csv) :
               ( /\ x.origin.document_id = last.result.document_id
                 /\ x.origin.path = last.path
                 /\ y.origin.path = last.path
                 /\ Unit(x) = Unit(y) )
               => x.id = y.id

\* C21: ids are collision-free.  Whenever a document is ingested, no item
\* that the collections already hold for another source file has the new
\* document's document_id (its chunk ids are built from it), however little
\* time lies between the two ingestions.
C21_IdsCollisionFree ==
    (last.op \in {"upload_document", "update_document"} /\ IsSuccess(last.result))
    => \A y \in Items(last.before_pdf) \cup Items(last.before_csv) :
           y.origin.path # last.path
           => /\ y.origin.document_id # last.result.document_id
              /\ \A x \in Items(pdf_collection) \cup Items(csv_collection) :
                     x.origin.path = last.path => x.id # y.id

\* C22: list_documents, of the DocumentManager and of the
\* VectorDatabaseManager, answers with a listing and not with an error,
\* whatever metadata the stored items have or lack.
C22_ListingToleratesMetadata ==
    /\ ~IsError(list_documents(pdf_collection, csv_collection))
    /\ ~IsError(db_list_documents(pdf_collection, csv_collection, FALSE))

\* C26: collection independence.  An upload or update of a CSV, successful
\* or not, leaves the PDF collection as it was, and an upload or update of
\* a PDF leaves the CSV collection as it was.
C26_CollectionIndependence ==
    last.op \in {"upload_document", "update_document", "ui_upload_document"}
    => /\ last.path \in CsvPaths => pdf_collection = last.before_pdf
       /\ last.path \in PdfPaths => csv_collection = last.before_csv

\* An update of a PDF, carried through to the re-upload, on a store whose
\* CSV collection holds items.
C26_Witness ==
    /\ last.op = "update_document"
    /\ last.path \in PdfPaths
    /\ last.parsed = "ok"
    /\ last.before_csv # <<>>
    /\ csv_collection = last.before_csv

\* The request carries neither a text nor an image: the text is None, the
\* empty string or the empty list, and there is no image.
NoInput(e) ==
    /\ e.image = None
    /\ \/ e.texts.kind = "none"
       \/ e.texts.value \in {<<>>, <<None>>, <<"">>}

\* C23: an embedding request with neither text nor image fails with an
\* invalid-input error and never returns a vector, at every embedder entry
\* point (the multimodal embed function, DocumentEmbedder.embed and
\* MultimodalRAGChain.invoke).
C23_NoInputIsInvalidInput ==
    (embedded.entry # "none" /\ NoInput(embedded)) => Raised(embedded.out)

Zeros(n) == [i \in 1..n |-> 0]

Slice(vector, from, to) == [i \in 1..(to - from + 1) |-> vector[from + i - 1]]

SplitFrom(item) ==
    {CaseId(k) : k \in {n \in 1..(MaxCases + 1) :
                           /\ Len(item.document) >= Len(CaseDocument(CaseId(n)))
                           /\ SubSeq(item.document, 1, Len(CaseDocument(CaseId(n))))
                                  = CaseDocument(CaseId(n))}}

\* C27: every item build_database writes to the chunk-level collection
\* carries, in its metadata, the case_id of the case it was split from, the
\* key the stage-2 query filters on.
C27_ChunksCarryCaseId ==
    \A i \in 1..Len(chunk_collection) :
        /\ "case_id" \in DOMAIN chunk_collection[i].metadata
        /\ SplitFrom(chunk_collection[i]) = {chunk_collection[i].metadata.case_id}

\* A chunk collection built from two cases, one of them split in two.
C27_Witness ==
    /\ Len(chunk_collection) >= 3
    /\ \E i, j \in 1..Len(chunk_collection) :
           /\ chunk_collection[i].metadata.case_id = CaseId(1)
           /\ chunk_collection[j].metadata.case_id = CaseId(2)

\* C28: the fixed-size splitter terminates.  For every content and every
\* configuration with 0 <= chunk_overlap < chunk_size, every pass of the
\* loop of _split_by_size leaves start strictly greater than it found it
\* (so that the loop ends and the chunk list is finite).
C28_SplitAdvances ==
    (split.pc = "loop" /\ split.iterations > 0) => split.start > split.before

\* C29: pagination is transparent.  On collections that do not change
\* during the call, whatever their sizes (below, at or above the page size
\* of 500), VectorDatabaseManager.list_documents ends having read the
\* metadata at every position exactly once, and answers with the
\* per-filename aggregation that one scan of the whole collection gives.
C29_PaginationTransparent ==
    (listed.pc = "done" /\ ~IsError(listed.result))
    => /\ listed.pdf_read = Positions(listed.pdf)
       /\ listed.csv_read = Positions(listed.csv)
       /\ listed.result.pdf = Aggregate(Metadatas(listed.pdf), "pdf")
       /\ listed.result.csv = Aggregate(Metadatas(listed.csv), "csv")
       /\ listed.result.summary =
              [pdf_files |-> Cardinality(DOMAIN Aggregate(Metadatas(listed.pdf), "pdf")),
               csv_files |-> Cardinality(DOMAIN Aggregate(Metadatas(listed.csv), "csv"))]

\* A listing of a CSV collection one item larger than a page and of a PDF
\* collection of exactly two pages, with two files in each.
C29_Witness ==
    /\ listed.pc = "done"
    /\ ~IsError(listed.result)
    /\ Len(listed.csv) = page_size + 1
    /\ Len(listed.pdf) = 2 * page_size
    /\ listed.result.summary = [pdf_files |-> 2, csv_files |-> 2]

Timeout == [error |-> <<"Parsing timeout">>]

\* C30: the poll loop is bounded.  For max_retries >= 1, get_parse_result
\* issues at most max_retries status requests and sleeps at most
\* max_retries - 1 times; it returns success only if the last poll observed
\* "done"; a poll that observes anything but an in-progress state is the
\* last one, and unless it observed "done" the call returns an error; the
\* timeout error is returned exactly when max_retries polls were made and
\* every one observed an in-progress state.
C30_PollLoopBounded ==
    poll.max_retries >= 1
    => /\ poll.requests <= poll.max_retries
       /\ poll.sleeps <= poll.max_retries - 1
       /\ poll.requests = Len(poll.observed)
       /\ IsSuccess(poll.result)
              => /\ poll.observed # <<>>
                 /\ poll.observed[Len(poll.observed)] = "done"
       /\ \A i \in 1..Len(poll.observed) :
              poll.observed[i] \notin InProgress
              => /\ i = Len(poll.observed)
                 /\ poll.pc = "done"
                 /\ poll.observed[i] # "done" => (IsError(poll.result) /\ poll.result # Timeout)
       /\ (poll.pc = "done" /\ poll.result = Timeout)
              <=> /\ poll.pc = "done"
                  /\ Len(poll.observed) = poll.max_retries
                  /\ \A i \in 1..Len(poll.observed) : poll.observed[i] \in InProgress

\* A call with max_retries = 3 that saw the task in progress three times,
\* slept twice and gave up.
C30_Witness ==
    /\ poll.pc = "done"
    /\ poll.max_retries = 3
    /\ poll.requests = 3
    /\ poll.sleeps = 2
    /\ poll.result = Timeout

\* C33: for a query that carries a text or an image, and whatever the
\* intent classifier answers, MultimodalRAGChain.invoke hands at least one
\* present modality to the stage-1 embedding, so that the embedder's
\* missing-input error does not occur.
C33_Stage1HasModality ==
    embedded.entry = "stage1"
    => /\ Truthy(embedded.texts.value[1]) \/ Truthy(embedded.image)
       /\ ~Raised(embedded.out)

\* The items a delete took out of the collections.
Removed ==
    (Items(last.before_pdf) \cup Items(last.before_csv))
        \ (Items(pdf_collection) \cup Items(csv_collection))

C37_InterfaceRejectsDuplicate ==
    ( /\ last.op = "ui_upload_document"
      /\ ~last.faulted
      /\ last.content.state = "ok"
      /\ \E y \in Items(last.before_pdf) \cup Items(last.before_csv) : y.origin.path = last.path )
    => /\ ReportsFailure(last.result)
       /\ Unchanged

\* C38: for content that is not blank and not longer than chunk_size (with
\* 0 <= chunk_overlap < chunk_size), _split_by_size returns exactly one
\* chunk, the whole stripped content, and no further chunk made of text
\* the first one already holds.
C38_ShortContentOneChunk ==
    ( /\ split.pc = "done"
      /\ Strip(split.content) # <<>>
      /\ Len(split.content) <= split.chunk_size )
    => split.chunk_num = 1

\* C31: in the single-stage chain, when the PDF query and the CSV query
\* both return no document, RealEstateRAGChain.invoke does not raise: it
\* returns the fixed no-relevant-content answer with an empty context, and
\* the answer generator is not invoked.
C31_NoHitsFixedAnswer ==
    ( /\ rag.op = "invoke"
      /\ rag.retrieved
      /\ rag.pdf_results.documents[1] = <<>>
      /\ rag.csv_results.documents[1] = <<>> )
    => /\ ~Raised(rag.result)
       /\ rag.result.answer = NoRelevantContent
       /\ rag.result.context = <<>>
       /\ ~rag.generated

\* A query on an empty store, with an answer generator that would fail.
C31_Witness ==
    /\ rag.op = "invoke"
    /\ rag.retrieved
    /\ rag.fault = "llm"
    /\ rag.csv_results.documents[1] = <<>>
    /\ rag.result.answer = NoRelevantContent

\* The pieces of a context between its separators.
RECURSIVE Pieces(_)
Pieces(context) ==
    IF \A i \in 1..Len(context) : context[i] # Separator THEN <<context>>
    ELSE LET i == CHOOSE k \in 1..Len(context) :
                      context[k] = Separator /\ \A m \in 1..(k - 1) : context[m] # Separator
         IN <<SubSeq(context, 1, i - 1)>> \o Pieces(SubSeq(context, i + 1, Len(context)))

EndsWith(piece, document) ==
    /\ Len(piece) >= Len(document)
    /\ SubSeq(piece, Len(piece) - Len(document) + 1, Len(piece)) = document

\* C32: in the single-stage chain the context holds every PDF hit, in the
\* order the PDF query returned them, then every CSV hit, in the order the
\* CSV query returned them, each under the tag of its collection; no hit
\* is dropped, duplicated or reordered.
C32_ContextKeepsHits ==
    (rag.op = "invoke" /\ rag.generated)
    => LET pdf_docs == rag.pdf_results.documents[1]
           csv_docs == rag.csv_results.documents[1]
           pieces == Pieces(rag.result.context)
       IN /\ Len(pieces) = Len(pdf_docs) + Len(csv_docs)
          /\ \A j \in 1..Len(pdf_docs) :
                 Head(pieces[j]) = "Document: " /\ EndsWith(pieces[j], pdf_docs[j])
          /\ \A j \in 1..Len(csv_docs) :
                 /\ Head(pieces[Len(pdf_docs) + j]) = "Data: "
                 /\ EndsWith(pieces[Len(pdf_docs) + j], csv_docs[j])

\* An answer generated from two different CSV hits.
C32_Witness ==
    /\ rag.op = "invoke"
    /\ rag.generated
    /\ Len(rag.csv_results.documents[1]) = 2
    /\ rag.csv_results.documents[1][1] # rag.csv_results.documents[1][2]
    /\ Len(Pieces(rag.result.context)) = 2

AlreadyExists(result) ==
    IsError(result) /\ Head(result.error) = "Document already exists: "

\* C34: whatever the interleaving of two concurrent upload_document calls
\* for the same filename (the file being there), at most one of them
\* inserts chunks and the other answers with the document-already-exists
\* error.
C34_OneConcurrentUploadWins ==
    ( /\ \A c \in Calls : uploads.calls[c].pc = "done" /\ uploads.calls[c].content.state = "ok"
      /\ uploads.calls[1].path = uploads.calls[2].path )
    => /\ Cardinality({c \in Calls : uploads.calls[c].inserted > 0}) <= 1
       /\ \E c \in Calls : AlreadyExists(uploads.calls[c].result)

\* All the chunks of the document a call is ingesting.
DocumentItems(call) ==
    Items(add_csv_document(call.path, NoMeta, call.content, NoFault, call.t, <<>>, <<>>).csv)

\* C35: ingestion is all-or-nothing at the granularity of index-store
\* calls.  A query that comes in at any point of an upload sees none of
\* the chunks of the document being ingested, or all of them.
C35_QuerySeesNoneOrAll ==
    \A c \in Calls :
        uploads.calls[c].prepared
        => LET visible == Items(uploads.seen) \cap DocumentItems(uploads.calls[c])
           IN visible = {} \/ visible = DocumentItems(uploads.calls[c])

====
